---- MODULE Spec2Model ----
(***************************************************************************)
(* Verification model of the wooddrawerthing drafting core: the Drawing    *)
(* State Machine (DrawingOp), the Flux store with its undo history (Store) *)
(* and the input routing that drives them (Input).                         *)
(*                                                                         *)
(* Arithmetic.  The program computes in IEEE doubles; the model computes   *)
(* in fixed point.  Lengths and coordinates (world and screen) are         *)
(* integers in 1/U pixel, unit vectors are integers in 1/DirScale, the     *)
(* zoom factor is an integer in 1/ZoomScale, compass vectors are integers  *)
(* in 1/VecScale, cached side lengths are integers in 1/InchScale inch.    *)
(* JavaScript null and undefined are the records NULL and UNDEF.           *)
(***************************************************************************)
EXTENDS Integers, Sequences, FiniteSets, TLC

\* ------------------------------------------------------------------------
\* Fixed-point scales (representation of the program's floats)
\* ------------------------------------------------------------------------
U == 100
DirScale == 10000
ZoomScale == 10
VecScale == 100
InchScale == 1000

\* ------------------------------------------------------------------------
\* Bounds of the exploration
\* ------------------------------------------------------------------------
MaxClicks == 3
MaxZooms == 1
MaxSwitches == 1
MaxUndos == 1

\* ------------------------------------------------------------------------
\* CONFIG (src/web/src/core/store.js:183-214)
\* ------------------------------------------------------------------------
SNAP_RADIUS_SCREEN_PX == 15
SCALE_PIXELS_PER_INCH == 10
DEFAULT_THICKNESS == 1
ARROW_GRID_RADIUS == 40
MAX_HISTORY == 10
HIGHLIGHT_RADIUS_PX == 60
CLICK_TOLERANCE_SCREEN_PX == 10

NULL == [tag |-> "null"]
UNDEF == [tag |-> "undefined"]
NoLen == -1

\* JavaScript truthiness of an object-or-null-or-undefined value
Truthy(v) == v # NULL /\ v # UNDEF

Abs(a) == IF a < 0 THEN -a ELSE a
Max(a, b) == IF a > b THEN a ELSE b
Min(a, b) == IF a < b THEN a ELSE b

\* Math.round(a / b) for b > 0: round half up
RoundDiv(a, b) == (2 * a + b) \div (2 * b)

RECURSIVE SqrtIter(_, _, _)
SqrtIter(n, lo, hi) ==
    IF lo >= hi THEN lo
    ELSE LET mid == (lo + hi + 1) \div 2
         IN IF mid * mid <= n THEN SqrtIter(n, mid, hi)
                              ELSE SqrtIter(n, lo, mid - 1)

\* nearest integer to the square root of n
ISqrt(n) ==
    LET r == SqrtIter(n, 0, 46340)
    IN IF n - r * r > r THEN r + 1 ELSE r

Pt(x, y) == [x |-> x, y |-> y, lengthToNext |-> NoLen]

\* Geometry.dist
Dist(p1, p2) == ISqrt((p2.x - p1.x) * (p2.x - p1.x) + (p2.y - p1.y) * (p2.y - p1.y))

\* squared distance, for comparisons of distances
Dist2(p1, p2) == (p2.x - p1.x) * (p2.x - p1.x) + (p2.y - p1.y) * (p2.y - p1.y)

\* Geometry.screenToWorld
ScreenToWorld(pos, view) ==
    Pt(RoundDiv((pos.x - view.pan.x) * ZoomScale, view.zoom),
       RoundDiv((pos.y - view.pan.y) * ZoomScale, view.zoom))

\* Geometry.worldToScreen
WorldToScreen(pos, view) ==
    [x |-> RoundDiv(pos.x * view.zoom, ZoomScale) + view.pan.x,
     y |-> RoundDiv(pos.y * view.zoom, ZoomScale) + view.pan.y]

\* Geometry.normalize: vec in 1/VecScale, result in 1/DirScale
Normalize(vec) ==
    LET m == ISqrt((vec.x * vec.x + vec.y * vec.y) * VecScale * VecScale)
        mag == IF m = 0 THEN VecScale * VecScale ELSE m
    IN [x |-> RoundDiv(vec.x * VecScale * DirScale, mag),
        y |-> RoundDiv(vec.y * VecScale * DirScale, mag)]

\* Geometry.dot of a vector in 1/U pixel with a unit vector: 1/U pixel
Dot(v, dir) == RoundDiv(v.x * dir.x + v.y * dir.y, DirScale)

\* dist / CONFIG.SCALE_PIXELS_PER_INCH, in 1/InchScale inch
LengthInches(d) == RoundDiv(d * InchScale, U * SCALE_PIXELS_PER_INCH)

\* Geometry.recalculateSideLengths
RecalculateSideLengths(points) ==
    IF Len(points) < 2 THEN points
    ELSE [i \in 1..Len(points) |->
            [x |-> points[i].x, y |-> points[i].y,
             lengthToNext |->
                LengthInches(Dist(points[i], points[(i % Len(points)) + 1]))]]

\* Geometry.gcd
RECURSIVE Gcd(_, _)
Gcd(a, b) == IF b = 0 THEN a ELSE Gcd(b, a % b)

\* quotient and remainder of a * b by c for a, b >= 0 and c > 0, by
\* doubling, so that no intermediate value leaves the 32-bit range
RECURSIVE MulDivRem(_, _, _)
MulDivRem(a, b, c) ==
    IF b = 0 THEN [q |-> 0, r |-> 0]
    ELSE LET h == MulDivRem(a, b \div 2, c)
             r == 2 * h.r + (IF b % 2 = 1 THEN a % c ELSE 0)
             q == 2 * h.q + (IF b % 2 = 1 THEN a \div c ELSE 0)
         IN [q |-> q + r \div c, r |-> r % c]

\* a * b / c to the nearest integer, for c # 0
MulDiv(a, b, c) ==
    LET sgn == IF (a < 0) = ((b < 0) = (c < 0)) THEN -1 ELSE 1
        g == Gcd(Abs(c), Abs(a))
        d == MulDivRem(Abs(a) \div g, Abs(b), Abs(c) \div g)
    IN sgn * (IF 2 * d.r >= Abs(c) \div g THEN d.q + 1 ELSE d.q)

\* a point object holding only coordinates
XY(x, y) == [x |-> x, y |-> y]

\* Geometry.closestPointOnSegment
ClosestPointOnSegment(p, p1, p2) ==
    LET dx == p2.x - p1.x
        dy == p2.y - p1.y
        num == (p.x - p1.x) * dx + (p.y - p1.y) * dy
        den == dx * dx + dy * dy
    IN IF dx = 0 /\ dy = 0 THEN p1
       ELSE IF num <= 0 THEN XY(p1.x, p1.y)
       ELSE IF num >= den THEN XY(p1.x + dx, p1.y + dy)
       ELSE XY(p1.x + MulDiv(num, dx, den), p1.y + MulDiv(num, dy, den))

\* Geometry.dist(a, b) < 0.01
Touches(a, b) == Dist(a, b) * 100 < U

\* findSegment of Geometry.splitPolygon from edge i on: the index (from 0)
\* of the first edge that contains p, or -1
RECURSIVE FindSegment(_, _, _)
FindSegment(pts, p, i) ==
    IF i >= Len(pts) THEN -1
    ELSE IF Touches(p, ClosestPointOnSegment(p, pts[i + 1], pts[((i + 1) % Len(pts)) + 1]))
    THEN i
    ELSE FindSegment(pts, p, i + 1)

\* the while loops of Geometry.splitPolygon: the points from index curr up
\* to, not including, index stop
RECURSIVE Walk(_, _, _)
Walk(pts, curr, stop) ==
    IF curr = stop THEN << >>
    ELSE << pts[curr + 1] >> \o Walk(pts, (curr + 1) % Len(pts), stop)

\* a split whose second loop walks the vertices of the first
SplitPolygonSameSide(pts, cutStart, cutEnd) ==
    LET n == Len(pts)
        idx1 == FindSegment(pts, cutStart, 0)
        idx2 == FindSegment(pts, cutEnd, 0)
    IN IF idx1 = -1 \/ idx2 = -1 \/ idx1 = idx2 THEN NULL
       ELSE << << cutStart >> \o Walk(pts, (idx1 + 1) % n, (idx2 + 1) % n) \o << cutEnd >>,
               << cutEnd >> \o Walk(pts, (idx1 + 1) % n, (idx2 + 1) % n) \o << cutStart >> >>

\* Geometry.splitPolygon
SplitPolygon(pts, cutStart, cutEnd) ==
    LET n == Len(pts)
        idx1 == FindSegment(pts, cutStart, 0)
        idx2 == FindSegment(pts, cutEnd, 0)
    IN IF idx1 = -1 \/ idx2 = -1 \/ idx1 = idx2 THEN NULL
       ELSE << << cutStart >> \o Walk(pts, (idx1 + 1) % n, (idx2 + 1) % n) \o << cutEnd >>,
               << cutEnd >> \o Walk(pts, (idx2 + 1) % n, (idx1 + 1) % n) \o << cutStart >> >>

\* Geometry.lineIntersection of the line through anchor along dir, reaching
\* len on either side, with the segment p3-p4: the hit or NULL
LineIntersection(anchor, dir, len, p3, p4) ==
    LET ex == p4.x - p3.x
        ey == p4.y - p3.y
        det == dir.x * ey - ex * dir.y
        \* gamma * det: how far along p3-p4 the hit lies
        g == dir.x * (anchor.y - p3.y) - dir.y * (anchor.x - p3.x)
        \* the hit is anchor + (s / det) * dir
        s == ex * (anchor.y - p3.y) - ey * (anchor.x - p3.x)
        inSegment == IF det > 0 THEN 0 <= g /\ g <= det ELSE det <= g /\ g <= 0
        hit == XY(anchor.x + MulDiv(s, dir.x, det), anchor.y + MulDiv(s, dir.y, det))
    IN IF det = 0 THEN NULL
       ELSE IF inSegment /\ Dist(anchor, hit) <= len THEN hit
       ELSE NULL

\* ------------------------------------------------------------------------
\* DrawingOp.updatePreview
\* ------------------------------------------------------------------------

\* the compass of candidate directions (r = 0: no own radius, vec.r || r1)
Arrows ==
    << [x |-> 0,    y |-> -100, r |-> 0], [x |-> 100,  y |-> -100, r |-> 0],
       [x |-> 100,  y |-> 0,    r |-> 0], [x |-> 100,  y |-> 100,  r |-> 0],
       [x |-> 0,    y |-> 100,  r |-> 0], [x |-> -100, y |-> 100,  r |-> 0],
       [x |-> -100, y |-> 0,    r |-> 0], [x |-> -100, y |-> -100, r |-> 0],
       [x |-> 38,   y |-> -92,  r |-> 72], [x |-> 92,  y |-> -38,  r |-> 72],
       [x |-> 92,   y |-> 38,   r |-> 72], [x |-> 38,  y |-> 92,   r |-> 72],
       [x |-> -38,  y |-> 92,   r |-> 72], [x |-> -92, y |-> 38,   r |-> 72],
       [x |-> -92,  y |-> -38,  r |-> 72], [x |-> -38, y |-> -92,  r |-> 72] >>

ArrowRadius(vec) == IF vec.r # 0 THEN vec.r ELSE ARROW_GRID_RADIUS

\* norm * radius for every arrow: the arrow's offset from the anchor on screen
ArrowOffsets ==
    [i \in 1..Len(Arrows) |->
        LET norm == Normalize(Arrows[i])
        IN [x |-> RoundDiv(norm.x * ArrowRadius(Arrows[i]) * U, DirScale),
            y |-> RoundDiv(norm.y * ArrowRadius(Arrows[i]) * U, DirScale)]]

\* screen position of arrow i around the anchor's screen position
ArrowPos(i, screenActive) ==
    [x |-> screenActive.x + ArrowOffsets[i].x, y |-> screenActive.y + ArrowOffsets[i].y]

\* how far the squared distance to pos can be off because pos is rounded
\* to 1/U pixel: (d +- 1/2)^2 differs from d^2 by about d on each axis
RoundingSlack(mouseScreen, pos) ==
    Abs(mouseScreen.x - pos.x) + Abs(mouseScreen.y - pos.y) + 1

\* the forEach loop: state [closest, minDist2] after the first i arrows;
\* minDist2 = -1 stands for Infinity. d < minDist is decided on squared
\* distances; two that differ by less than the rounding of the arrow
\* position are the equal distances of the program (the pointer on the
\* anchor is 40 pixels from every inner arrow), and the earlier arrow stays
RECURSIVE ClosestArrow(_, _, _)
ClosestArrow(i, mouseScreen, screenActive) ==
    IF i = 0 THEN [closest |-> NULL, minDist2 |-> -1]
    ELSE LET prev == ClosestArrow(i - 1, mouseScreen, screenActive)
             vec == Arrows[i]
             d2 == Dist2(mouseScreen, ArrowPos(i, screenActive))
         IN IF \/ prev.minDist2 = -1
               \/ d2 + RoundingSlack(mouseScreen, ArrowPos(i, screenActive)) < prev.minDist2
            THEN [closest |-> [x |-> vec.x, y |-> vec.y, r |-> ArrowRadius(vec)],
                  minDist2 |-> d2]
            ELSE prev

\* START_SHAPE branch: the new highlightedDirection
HighlightFor(activePt, view, mouseScreen) ==
    LET c == ClosestArrow(Len(Arrows), mouseScreen, WorldToScreen(activePt, view))
    IN IF c.minDist2 < (HIGHLIGHT_RADIUS_PX * U) * (HIGHLIGHT_RADIUS_PX * U)
       THEN c.closest ELSE NULL

\* snap tiers: increment in 1/8 inch, weight in tenths
Tiers == << [inc8 |-> 8, weight10 |-> 10], [inc8 |-> 4, weight10 |-> 8],
            [inc8 |-> 2, weight10 |-> 6],  [inc8 |-> 1, weight10 |-> 4] >>

\* a tier loop that tries the finest increment first
RECURSIVE TierSnapFinestFirst(_, _, _)
TierSnapFinestFirst(i, len, zoom) ==
    IF i > Len(Tiers) THEN len
    ELSE LET tier == Tiers[Len(Tiers) + 1 - i]
             incNum == tier.inc8 * SCALE_PIXELS_PER_INCH * U
             nearest8 == RoundDiv(len * 8, incNum) * incNum
             distPx == Abs(len * 8 - nearest8) * zoom * 10
             threshold == Min(SNAP_RADIUS_SCREEN_PX * tier.weight10 * 8 * U * ZoomScale,
                              incNum * zoom * 4)
         IN IF distPx < threshold THEN nearest8 \div 8
            ELSE TierSnapFinestFirst(i + 1, len, zoom)

\* the tier loop from tier i on: the snapped length (1/U pixel) of len
RECURSIVE TierSnap(_, _, _)
TierSnap(i, len, zoom) ==
    IF i > Len(Tiers) THEN len
    ELSE LET incNum == Tiers[i].inc8 * SCALE_PIXELS_PER_INCH * U
             \* nearest = Math.round(lenInches / inc) * inc, in 1/(8U) pixel
             nearest8 == RoundDiv(len * 8, incNum) * incNum
             \* distInPixels and threshold, both times 8 * U * ZoomScale * 10
             distPx == Abs(len * 8 - nearest8) * zoom * 10
             maxAllowed == incNum * zoom * 4
             threshold == Min(SNAP_RADIUS_SCREEN_PX * Tiers[i].weight10 * 8 * U * ZoomScale,
                              maxAllowed)
         IN IF distPx < threshold THEN nearest8 \div 8
            ELSE TierSnap(i + 1, len, zoom)

\* |(t - len) * view.zoom| < CONFIG.SNAP_RADIUS_SCREEN_PX
WithinAlign(t, len, zoom) == Abs((t - len) * zoom) < SNAP_RADIUS_SCREEN_PX * U * ZoomScale

PointAlong(activePt, dir, len) ==
    Pt(activePt.x + RoundDiv(dir.x * len, DirScale),
       activePt.y + RoundDiv(dir.y * len, DirScale))

\* the x-axis alignment block: [len, guide]
AlignX(lg, startPt, activePt, dir, zoom) ==
    IF dir.x = 0 THEN lg
    ELSE LET sgn == IF dir.x < 0 THEN -1 ELSE 1
             t == RoundDiv((startPt.x - activePt.x) * sgn * DirScale, Abs(dir.x))
         IN IF t > 0 /\ WithinAlign(t, lg.len, zoom)
            THEN [len |-> t,
                  guide |-> [start |-> startPt, end |-> PointAlong(activePt, dir, t)]]
            ELSE lg

\* the y-axis alignment block: [len, guide]
AlignY(lg, startPt, activePt, dir, zoom) ==
    IF dir.y = 0 THEN lg
    ELSE LET sgn == IF dir.y < 0 THEN -1 ELSE 1
             t == RoundDiv((startPt.y - activePt.y) * sgn * DirScale, Abs(dir.y))
         IN IF t > 0 /\ WithinAlign(t, lg.len, zoom)
            THEN [len |-> t,
                  guide |-> [start |-> startPt, end |-> PointAlong(activePt, dir, t)]]
            ELSE lg

\* a loop-closure test that accepts a sketch of two points
ClosureSnapTwoPoints(pts, view, mouseScreen) ==
    /\ Len(pts) > 1
    /\ Dist2(mouseScreen, WorldToScreen(pts[1], view))
          < (SNAP_RADIUS_SCREEN_PX * U) * (SNAP_RADIUS_SCREEN_PX * U)

\* the loop-closure test of the DRAWING_LINE branch
ClosureSnap(pts, view, mouseScreen) ==
    /\ Len(pts) > 2
    /\ Dist2(mouseScreen, WorldToScreen(pts[1], view))
          < (SNAP_RADIUS_SCREEN_PX * U) * (SNAP_RADIUS_SCREEN_PX * U)

\* a DRAWING_LINE branch that does not clear the alignment guide first
PreviewLineKeepGuide(ad, view, mouseWorld, mouseScreen) ==
    LET pts == ad.points
        activePt == pts[Len(pts)]
        startPt == pts[1]
        dir == Normalize(ad.selectedDirection)
        vecToMouse == [x |-> mouseWorld.x - activePt.x, y |-> mouseWorld.y - activePt.y]
        len0 == Max(0, Dot(vecToMouse, dir))
        len1 == TierSnap(1, len0, view.zoom)
        lg0 == [len |-> len1, guide |-> ad.alignmentGuide]
        lg1 == AlignX(lg0, startPt, activePt, dir, view.zoom)
        lg2 == AlignY(lg1, startPt, activePt, dir, view.zoom)
    IN IF ClosureSnap(pts, view, mouseScreen)
       THEN [ad EXCEPT !.snapTarget = startPt,
                       !.tempLine = [start |-> activePt, end |-> startPt]]
       ELSE [ad EXCEPT !.snapTarget = NULL,
                       !.alignmentGuide = lg2.guide,
                       !.tempLine = [start |-> activePt,
                                     end |-> PointAlong(activePt, dir, lg2.len)]]

\* DRAWING_LINE branch: the activeDrawing after the preview
PreviewLine(ad, view, mouseWorld, mouseScreen) ==
    LET pts == ad.points
        activePt == pts[Len(pts)]
        startPt == pts[1]
        dir == Normalize(ad.selectedDirection)
        vecToMouse == [x |-> mouseWorld.x - activePt.x, y |-> mouseWorld.y - activePt.y]
        len0 == Max(0, Dot(vecToMouse, dir))
        len1 == TierSnap(1, len0, view.zoom)
        lg0 == [len |-> len1, guide |-> NULL]
        lg1 == AlignX(lg0, startPt, activePt, dir, view.zoom)
        lg2 == AlignY(lg1, startPt, activePt, dir, view.zoom)
    IN IF ClosureSnap(pts, view, mouseScreen)
       THEN [ad EXCEPT !.snapTarget = startPt,
                       !.alignmentGuide = NULL,
                       !.tempLine = [start |-> activePt, end |-> startPt]]
       ELSE [ad EXCEPT !.snapTarget = NULL,
                       !.alignmentGuide = lg2.guide,
                       !.tempLine = [start |-> activePt,
                                     end |-> PointAlong(activePt, dir, lg2.len)]]

\* DrawingOp.updatePreview: the activeDrawing after the call
UpdatePreview(ad, drawState, view, mouseWorld, mouseScreen) ==
    IF Len(ad.points) = 0 THEN ad
    ELSE IF drawState = "START_SHAPE"
    THEN [ad EXCEPT !.highlightedDirection =
                        HighlightFor(ad.points[Len(ad.points)], view, mouseScreen)]
    ELSE IF drawState = "DRAWING_LINE"
    THEN \* Geometry.normalize(null) throws before anything is written
         IF Truthy(ad.selectedDirection)
         THEN PreviewLine(ad, view, mouseWorld, mouseScreen)
         ELSE ad
    ELSE ad

\* ------------------------------------------------------------------------
\* State
\* ------------------------------------------------------------------------
VARIABLES
    ui,         \* STATE.ui: mode, drawState, selectedShapeId, view, activeDrawing
    document,   \* STATE.document: projects, currentProjectId
    history,    \* the store's undo snapshots, oldest first
    nextId,     \* how many ids Math.random has produced
    clock,      \* the last value Date.now() returned
    lastOp,     \* the handler that ran last and what it returned
    clicks,     \* canvas clicks handled so far
    zooms,      \* wheel events handled so far
    switches,   \* mode-button presses handled so far
    undos,      \* Ctrl+Z presses handled so far
    projectInit, \* ProjectOp.init(): "pending" until its promise resolves
    script,     \* the gestures of the opening session still to come
    edits,      \* slice commits, JSON imports and tenons added so far
    boolMenu,   \* DOM.boolMenu: whether it is hidden, and the timeouts that will show it
    input       \* Input's own fields, the 100 ms timeouts of handleMouseUp, the button held

vars == <<ui, document, history, nextId, clock, lastOp, clicks, zooms, switches, undos,
          projectInit, script, edits, boolMenu, input>>

NoEdits == [slices |-> 0, imports |-> 0, tenons |-> 0, presses |-> 0, moves |-> 0,
            booleans |-> 0, deletes |-> 0, cycles |-> 0, joinery |-> 0, renames |-> 0,
            pans |-> 0]

\* the boolean menu as the page loads: hidden, no timeout pending
NoMenu == [hidden |-> TRUE, timeouts |-> << >>]

\* no mouse button is down
NoButton == -1

\* Input as the page loads: ignoreNextClick, isPanningInteraction and
\* mouseDownPos are not declared (undefined, falsy); no timeout is pending.
\* panEnded observes the gestures: a pan has just ended beyond the click
\* tolerance, and neither a click nor a tick nor a mouse-down has followed
NoInput == [ignoreNextClick |-> FALSE, isPanningInteraction |-> FALSE,
            mouseDownPos |-> [tag |-> "undefined"], timers |-> << >>,
            held |-> NoButton, panEnded |-> FALSE]

\* the program state the handlers read and write
Cur == [ui |-> ui, document |-> document, history |-> history, nextId |-> nextId,
        clock |-> clock]

ShapeId(n) == [tag |-> "id", n |-> n]

ProjectId(n) == [tag |-> "project", n |-> n]

\* STATE.ui.activeDrawing as declared
EmptyDrawing ==
    [points |-> << >>, tempLine |-> NULL, selectedDirection |-> NULL,
     highlightedDirection |-> NULL, snapTarget |-> NULL, alignmentGuide |-> NULL]

\* STATE.ui.view.pan after init() centred it on the canvas
InitPan == [x |-> 40 * U, y |-> 40 * U]

\* pointer positions on the canvas (screen, 1/U pixel)
Cursors ==
    { [x |-> 40 * U, y |-> 40 * U], [x |-> 60 * U, y |-> 40 * U] }

\* where the pointer is when the wheel turns
WheelCursors == { [x |-> 40 * U, y |-> 40 * U] }

\* zoom factors a wheel event may produce (within CONFIG.ZOOM.MIN..MAX)
ZoomLevels == { ZoomScale, 2 * ZoomScale }

Modes == {"DRAW", "SELECT"}

\* STATE.document.currentProject
CurrentProjectIndex(doc) ==
    IF \E i \in 1..Len(doc.projects) : doc.projects[i].id = doc.currentProjectId
    THEN CHOOSE i \in 1..Len(doc.projects) :
            /\ doc.projects[i].id = doc.currentProjectId
            /\ \A j \in 1..(i - 1) : doc.projects[j].id # doc.currentProjectId
    ELSE 0

\* STATE.document.shapes (getter)
Shapes(doc) ==
    IF CurrentProjectIndex(doc) = 0 THEN << >>
    ELSE doc.projects[CurrentProjectIndex(doc)].shapes

\* STATE.document.shapes = val (setter)
SetShapes(doc, val) ==
    IF CurrentProjectIndex(doc) = 0 THEN doc
    ELSE [doc EXCEPT !.projects[CurrentProjectIndex(doc)].shapes = val]

\* ------------------------------------------------------------------------
\* Store
\* ------------------------------------------------------------------------

\* Object.assign(target, source) on the keys the model keeps
Assign(target, source) ==
    [k \in DOMAIN target |-> IF k \in DOMAIN source THEN source[k] ELSE target[k]]

\* Object.assign(STATE.document, payload.document): shapes goes through the setter
AssignDocument(doc, pd) ==
    LET d1 == IF "projects" \in DOMAIN pd
              THEN [doc EXCEPT !.projects = pd.projects] ELSE doc
        d2 == IF "currentProjectId" \in DOMAIN pd
              THEN [d1 EXCEPT !.currentProjectId = pd.currentProjectId] ELSE d1
    IN IF "shapes" \in DOMAIN pd THEN SetShapes(d2, pd.shapes) ELSE d2

\* the snapshot handleUpdate takes before it modifies the state
Snapshot(S) ==
    [document |-> [projects |-> S.document.projects,
                   currentProjectId |-> S.document.currentProjectId],
     ui |-> [activeDrawing |-> S.ui.activeDrawing, drawState |-> S.ui.drawState]]

\* a history that turns the newest snapshot away when it is full
PushHistoryKeepsOldest(h, snap) ==
    LET h1 == Append(h, snap)
    IN IF Len(h1) > MAX_HISTORY THEN SubSeq(h1, 1, MAX_HISTORY) ELSE h1

\* history.push(..); if (history.length > MAX_HISTORY) history.shift()
PushHistory(h, snap) ==
    LET h1 == Append(h, snap)
    IN IF Len(h1) > MAX_HISTORY THEN Tail(h1) ELSE h1

\* Store.dispatch -> Store.handleUpdate (synchronous)
Dispatch(S, payload, shouldPersist) ==
    [S EXCEPT
        !.history = IF shouldPersist THEN PushHistory(S.history, Snapshot(S))
                    ELSE S.history,
        !.ui = IF "ui" \in DOMAIN payload THEN Assign(S.ui, payload.ui) ELSE S.ui,
        !.document = IF "document" \in DOMAIN payload
                     THEN AssignDocument(S.document, payload.document)
                     ELSE S.document]

\* an undo that restores the document and leaves the drawing as it is
UndoDocumentOnly(S) ==
    IF Len(S.history) = 0 THEN S
    ELSE LET previousState == S.history[Len(S.history)]
             popped == [S EXCEPT !.history = SubSeq(S.history, 1, Len(S.history) - 1)]
         IN Dispatch(popped,
                     [document |-> previousState.document,
                      ui |-> [selectedShapeId |-> NULL]],
                     FALSE)

\* Store.undo
Undo(S) ==
    IF Len(S.history) = 0 THEN S
    ELSE LET previousState == S.history[Len(S.history)]
             popped == [S EXCEPT !.history = SubSeq(S.history, 1, Len(S.history) - 1)]
         IN Dispatch(popped,
                     [document |-> previousState.document,
                      ui |-> [activeDrawing |-> previousState.ui.activeDrawing,
                              drawState |-> previousState.ui.drawState,
                              selectedShapeId |-> NULL]],
                     FALSE)

\* ------------------------------------------------------------------------
\* References to shape objects held outside the shape list (ui.dragging.item,
\* ui.boolCandidate, the closures of the menu timeouts)
\* ------------------------------------------------------------------------

\* a reference: the object as it was when last seen through the reference,
\* and whether that very object is an element of STATE.document.shapes
Ref(shape, live) == [obj |-> shape, live |-> live]

IsRef(v) == "obj" \in DOMAIN v

ShapeIds(shapes) == { shapes[i].id : i \in 1..Len(shapes) }

\* the objects with these ids have left the shape list
Detach(ref, ids) ==
    IF IsRef(ref) /\ ref.obj.id \in ids THEN [ref EXCEPT !.live = FALSE] ELSE ref

DetachCandidate(c, ids) ==
    IF "active" \in DOMAIN c
    THEN [active |-> Detach(c.active, ids), target |-> Detach(c.target, ids)]
    ELSE c

\* B is the program state together with the boolean menu
DetachAll(B, ids) ==
    [st |-> [B.st EXCEPT !.ui.dragging.item = Detach(B.st.ui.dragging.item, ids),
                         !.ui.boolCandidate = DetachCandidate(B.st.ui.boolCandidate, ids)],
     menu |-> [B.menu EXCEPT !.timeouts =
                  [i \in 1..Len(B.menu.timeouts) |->
                      DetachCandidate(B.menu.timeouts[i], ids)]]]

\* Store.undo as the holders of references see it: every shape of the
\* restored document is an object of the snapshot
UndoAll(B) ==
    DetachAll([st |-> Undo(B.st), menu |-> B.menu], ShapeIds(Shapes(B.st.document)))

\* ------------------------------------------------------------------------
\* ShapeModel
\* ------------------------------------------------------------------------
EdgeNames == << "EDGE_0", "EDGE_1", "EDGE_2", "EDGE_3", "EDGE_4", "EDGE_5",
                "EDGE_6", "EDGE_7", "EDGE_8", "EDGE_9", "EDGE_10", "EDGE_11" >>

EmptyFace == [tenons |-> << >>, cutouts |-> << >>]

\* faceData of a new shape: FRONT, BACK and one EDGE_i per point
NewFaceData(points) ==
    [f \in {"FRONT", "BACK"} \cup { EdgeNames[i] : i \in 1..Len(points) } |-> EmptyFace]

\* ShapeModel.create(points, name) with the id Math.random produced and the
\* time Date.now() returned
ShapeCreate(points, name, id, now) ==
    [id |-> id,
     name |-> name,
     lastModified |-> now,
     points |-> RecalculateSideLengths(points),
     closed |-> TRUE,
     thickness |-> DEFAULT_THICKNESS * InchScale,
     activeFace |-> "FRONT",
     faceData |-> NewFaceData(points),
     transform3D |-> [position |-> [x |-> 0, y |-> 0, z |-> 0],
                      rotation |-> [x |-> 0, y |-> 0, z |-> 0]]]

\* ------------------------------------------------------------------------
\* DrawingOp.handleDrawClick
\* ------------------------------------------------------------------------

\* a reference that pointed at the object old sees the object's new value
Alias(ref, old, new) == IF ref = old THEN new ELSE ref

AliasLine(line, old, new) ==
    IF Truthy(line)
    THEN [start |-> Alias(line.start, old, new), end |-> Alias(line.end, old, new)]
    ELSE line

\* the activeDrawing after the point objects of ad.points were changed in
\* place to newPts: tempLine, snapTarget and alignmentGuide hold references
\* to the anchor (last) and start (first) point objects
MutatePoints(ad, newPts) ==
    LET n == Len(ad.points)
        a1 == [ad EXCEPT
                 !.points = newPts,
                 !.tempLine = AliasLine(ad.tempLine, ad.points[n], newPts[n]),
                 !.snapTarget = Alias(ad.snapTarget, ad.points[1], newPts[1]),
                 !.alignmentGuide =
                     IF Truthy(ad.alignmentGuide)
                     THEN [ad.alignmentGuide EXCEPT
                             !.start = Alias(ad.alignmentGuide.start, ad.points[1], newPts[1])]
                     ELSE ad.alignmentGuide]
    IN IF Truthy(a1.tempLine) /\ Truthy(ad.snapTarget)
       THEN [a1 EXCEPT !.tempLine.end = Alias(a1.tempLine.end, ad.points[1], newPts[1])]
       ELSE a1

\* a DRAW_START that pushes the point onto the points already there
DrawStartPayloadPush(ad, mouseWorld) ==
    [ui |-> [drawState |-> "START_SHAPE",
             activeDrawing |-> [ad EXCEPT !.points = Append(ad.points, mouseWorld)]]]

\* payload of DRAW_START
DrawStartPayload(ad, mouseWorld) ==
    [ui |-> [drawState |-> "START_SHAPE",
             activeDrawing |-> [ad EXCEPT !.points = << mouseWorld >>]]]

\* a DRAW_DIRECTION_SET that leaves the highlight in place
DirectionSetPayloadKeepHighlight(ad) ==
    [ui |-> [drawState |-> "DRAWING_LINE",
             activeDrawing |-> [ad EXCEPT !.selectedDirection = ad.highlightedDirection]]]

\* payload of DRAW_DIRECTION_SET
DirectionSetPayload(ad) ==
    [ui |-> [drawState |-> "DRAWING_LINE",
             activeDrawing |-> [ad EXCEPT !.selectedDirection = ad.highlightedDirection,
                                          !.highlightedDirection = NULL]]]

\* payload of DRAW_RESET: an object with three fields, the others undefined
DrawResetPayload(mouseWorld) ==
    [ui |-> [drawState |-> "IDLE",
             activeDrawing |-> [points |-> << mouseWorld >>, tempLine |-> NULL,
                                alignmentGuide |-> NULL, selectedDirection |-> UNDEF,
                                highlightedDirection |-> UNDEF, snapTarget |-> UNDEF]]]

\* payload of DRAW_POINT_ADDED
PointAddedPayload(ad, newPoints) ==
    [ui |-> [drawState |-> "START_SHAPE",
             activeDrawing |-> [ad EXCEPT !.points = newPoints,
                                          !.tempLine = NULL,
                                          !.alignmentGuide = NULL,
                                          !.selectedDirection = NULL,
                                          !.snapTarget = NULL]]]

\* payload of SHAPE_ADD on completion: an activeDrawing with four fields
ShapeAddPayload(shapes, newShape) ==
    [document |-> [shapes |-> Append(shapes, newShape)],
     ui |-> [drawState |-> "IDLE",
             activeDrawing |-> [points |-> << >>, tempLine |-> NULL,
                                alignmentGuide |-> NULL, snapTarget |-> NULL,
                                selectedDirection |-> UNDEF,
                                highlightedDirection |-> UNDEF],
             selectedShapeId |-> newShape.id,
             mode |-> "SELECT"]]

RetNull == [kind |-> "null"]
RetThrow == [kind |-> "TypeError"]
RetShape(shape) == [kind |-> "shape", shape |-> shape]

\* the IDLE branch
ClickIdle(S, mouseWorld) ==
    [st |-> Dispatch(S, DrawStartPayload(S.ui.activeDrawing, mouseWorld), TRUE),
     ret |-> RetNull]

\* a START_SHAPE branch that restarts without the reset
ClickStartShapeNoReset(S, mouseWorld) ==
    IF Truthy(S.ui.activeDrawing.highlightedDirection)
    THEN [st |-> Dispatch(S, DirectionSetPayload(S.ui.activeDrawing), TRUE),
          ret |-> RetNull]
    ELSE [st |-> Dispatch(S, DrawStartPayload(S.ui.activeDrawing, mouseWorld), TRUE),
          ret |-> RetNull]

\* the START_SHAPE branch
ClickStartShape(S, mouseWorld) ==
    IF Truthy(S.ui.activeDrawing.highlightedDirection)
    THEN [st |-> Dispatch(S, DirectionSetPayload(S.ui.activeDrawing), TRUE),
          ret |-> RetNull]
    ELSE LET S1 == Dispatch(S, DrawResetPayload(mouseWorld), TRUE)
         IN [st |-> Dispatch(S1, DrawStartPayload(S1.ui.activeDrawing, mouseWorld), TRUE),
             ret |-> RetNull]

\* the DRAWING_LINE branch; reading tempLine.end of a null or undefined
\* tempLine, or a point of an empty list, throws before anything is written
ClickDrawingLine(S, mouseWorld) ==
    LET ad == S.ui.activeDrawing
        n == Len(ad.points)
    IN IF n = 0 \/ (~Truthy(ad.snapTarget) /\ ~Truthy(ad.tempLine))
       THEN [st |-> S, ret |-> RetThrow]
       ELSE
       LET activePt == ad.points[n]
           target == IF Truthy(ad.snapTarget) THEN ad.snapTarget ELSE ad.tempLine.end
           dist == Dist(activePt, target)
           \* newPoints[last].lengthToNext = ..: written into the shared point object
           measured == [ad.points EXCEPT ![n].lengthToNext = LengthInches(dist)]
       IN IF Truthy(ad.snapTarget)
          THEN LET newShape == ShapeCreate(measured, [base |-> "Part", n |-> Len(Shapes(S.document)) + 1],
                                           ShapeId(S.nextId + 1), S.clock + 1)
                   \* ShapeModel.create recalculates on the same point objects
                   S1 == [S EXCEPT !.ui.activeDrawing = MutatePoints(ad, newShape.points),
                                   !.nextId = S.nextId + 1,
                                   !.clock = S.clock + 1]
               IN [st |-> Dispatch(S1, ShapeAddPayload(Shapes(S1.document), newShape), TRUE),
                   ret |-> RetShape(newShape)]
          ELSE LET S1 == [S EXCEPT !.ui.activeDrawing = MutatePoints(ad, measured)]
               IN [st |-> Dispatch(S1, PointAddedPayload(S1.ui.activeDrawing,
                                                         Append(measured, target)), TRUE),
                   ret |-> RetNull]

\* DrawingOp.handleDrawClick: the state after the call and what it returns
HandleDrawClick(S, mouseWorld) ==
    IF S.ui.drawState = "IDLE" THEN ClickIdle(S, mouseWorld)
    ELSE IF S.ui.drawState = "START_SHAPE" THEN ClickStartShape(S, mouseWorld)
    ELSE IF S.ui.drawState = "DRAWING_LINE" THEN ClickDrawingLine(S, mouseWorld)
    ELSE [st |-> S, ret |-> RetNull]

\* a cancel that empties the point list and leaves the other fields
CancelPointsOnly(S) ==
    Dispatch(S,
             [ui |-> [drawState |-> "IDLE",
                      activeDrawing |-> [S.ui.activeDrawing EXCEPT !.points = << >>]]],
             FALSE)

\* DrawingOp.cancel
Cancel(S) ==
    Dispatch(S,
             [ui |-> [drawState |-> "IDLE",
                      activeDrawing |-> [points |-> << >>, tempLine |-> NULL,
                                         alignmentGuide |-> NULL, selectedDirection |-> NULL,
                                         snapTarget |-> NULL, highlightedDirection |-> NULL]]],
             FALSE)

\* Input.switchTool
SwitchToolState(S, mode) ==
    [S EXCEPT !.ui.mode = mode,
              !.ui.drawState = "IDLE",
              !.ui.activeDrawing.points = << >>]

\* ViewportOp.handleZoom with the wheel at mouse and newZoom the clamped factor
HandleZoom(view, mouse, newZoom) ==
    LET worldBefore == ScreenToWorld(mouse, view)
        zoomed == [view EXCEPT !.zoom = newZoom]
        worldAfter == ScreenToWorld(mouse, zoomed)
    IN [zoomed EXCEPT
          !.pan = [x |-> view.pan.x + RoundDiv((worldAfter.x - worldBefore.x) * newZoom, ZoomScale),
                   y |-> view.pan.y + RoundDiv((worldAfter.y - worldBefore.y) * newZoom, ZoomScale)]]

\* ------------------------------------------------------------------------
\* Input: the event handlers
\* ------------------------------------------------------------------------

\* Input.handleCanvasClick, left button: the state after it and what
\* DrawingOp.handleDrawClick returned
CanvasClick(S, mouseScreen) ==
    IF S.ui.mode = "DRAW"
    THEN HandleDrawClick(S, ScreenToWorld(mouseScreen, S.ui.view))
    ELSE [st |-> S, ret |-> RetNull]

\* Input.handleMouseMove with no pan and no drag in progress
MouseMove(S, mouseScreen) ==
    IF S.ui.mode = "DRAW"
    THEN [S EXCEPT !.ui.activeDrawing =
             UpdatePreview(S.ui.activeDrawing, S.ui.drawState, S.ui.view,
                           ScreenToWorld(mouseScreen, S.ui.view), mouseScreen)]
    ELSE S

\* Input.handleMouseUp with no pan and no drag in progress
MouseUp(S) == [S EXCEPT !.ui.activeDrawing.alignmentGuide = NULL]

\* Input.handleKeyDown with Escape
Escape(S) == IF S.ui.mode = "DRAW" THEN Cancel(S) ELSE S

\* what the handler that ran last was, the draw state a cancel or a tool
\* switch found, and what a click returned
Op(name, ret) ==
    [op |-> name,
     pre |-> IF name \in {"escape", "switchTool"} THEN ui.drawState ELSE "-",
     ret |-> ret]

Install(S) ==
    /\ ui' = S.ui
    /\ document' = S.document
    /\ history' = S.history
    /\ nextId' = S.nextId
    /\ clock' = S.clock

\* the program state together with the boolean menu
CurAll == [st |-> Cur, menu |-> boolMenu]

InstallAll(B) ==
    /\ Install(B.st)
    /\ boolMenu' = B.menu

HandleCanvasClick(mouseScreen) ==
    /\ ui.mode = "DRAW"
    /\ clicks < MaxClicks
    /\ Install(CanvasClick(Cur, mouseScreen).st)
    /\ lastOp' = Op("click", CanvasClick(Cur, mouseScreen).ret)
    /\ clicks' = clicks + 1
    /\ UNCHANGED <<zooms, switches, undos, projectInit, script, edits, boolMenu, input>>

HandleMouseMove(mouseScreen) ==
    /\ ui.mode = "DRAW"
    /\ Install(MouseMove(Cur, mouseScreen))
    /\ lastOp' = Op("preview", RetNull)
    /\ UNCHANGED <<clicks, zooms, switches, undos, projectInit, script, edits, boolMenu, input>>

HandleMouseUp ==
    /\ Install(MouseUp(Cur))
    /\ lastOp' = Op("mouseup", RetNull)
    /\ UNCHANGED <<clicks, zooms, switches, undos, projectInit, script, edits, boolMenu, input>>

KeyEscape ==
    /\ Install(Escape(Cur))
    /\ lastOp' = Op("escape", RetNull)
    /\ UNCHANGED <<clicks, zooms, switches, undos, projectInit, script, edits, boolMenu, input>>

\* Input.handleKeyDown with Ctrl+Z
KeyUndo ==
    /\ Len(history) > 0
    /\ undos < MaxUndos
    /\ InstallAll(UndoAll(CurAll))
    /\ lastOp' = Op("undo", RetNull)
    /\ undos' = undos + 1
    /\ UNCHANGED <<clicks, zooms, switches, projectInit, script, edits, input>>

\* the mode buttons
SwitchTool(mode) ==
    /\ switches < MaxSwitches
    /\ Install(SwitchToolState(Cur, mode))
    /\ lastOp' = Op("switchTool", RetNull)
    /\ switches' = switches + 1
    /\ UNCHANGED <<clicks, zooms, undos, projectInit, script, edits, boolMenu, input>>

\* Input.handleWheel
HandleWheel(mouseScreen, newZoom) ==
    /\ zooms < MaxZooms
    /\ newZoom # ui.view.zoom
    /\ ui' = [ui EXCEPT !.view = HandleZoom(ui.view, mouseScreen, newZoom)]
    /\ lastOp' = Op("wheel", RetNull)
    /\ zooms' = zooms + 1
    /\ UNCHANGED <<document, history, nextId, clock, clicks, switches, undos, projectInit, script, edits, boolMenu, input>>

\* ProjectOp.init on an empty database: createNewProject("My First Project")
\* pushes the project and selectProject makes it current
ProjectLoaded(S) ==
    [S EXCEPT
       !.document.projects = Append(S.document.projects,
                                    [id |-> ProjectId(1), name |-> "My First Project",
                                     shapes |-> << >>]),
       !.document.currentProjectId = ProjectId(1),
       !.ui.selectedShapeId = NULL]

\* the promise of ProjectOp.init() resolves
ProjectInit ==
    /\ projectInit = "pending"
    /\ Install(ProjectLoaded(Cur))
    /\ projectInit' = "done"
    /\ lastOp' = Op("projectInit", RetNull)
    /\ UNCHANGED <<clicks, zooms, switches, undos, script, edits, boolMenu, input>>

\* STATE as declared, after init() centred the view
InitState ==
    [ui |-> [mode |-> "DRAW", drawState |-> "IDLE", selectedShapeId |-> NULL,
             view |-> [pan |-> InitPan, zoom |-> ZoomScale,
                       isPanning |-> FALSE, panStart |-> [x |-> 0, y |-> 0]],
             isSpacePressed |-> FALSE,
             activeDrawing |-> EmptyDrawing,
             hoveredShapeId |-> NULL,
             slice2D |-> UNDEF,
             dragging |-> [type |-> NULL, item |-> NULL],
             boolCandidate |-> UNDEF],
     document |-> [projects |-> << >>, currentProjectId |-> NULL],
     history |-> << >>,
     nextId |-> 0,
     clock |-> 0]

\* init() has returned; ProjectOp.init() is still waiting for the database
Init ==
    /\ ui = InitState.ui
    /\ document = InitState.document
    /\ history = InitState.history
    /\ nextId = InitState.nextId
    /\ clock = InitState.clock
    /\ lastOp = [op |-> "init", pre |-> "-", ret |-> RetNull]
    /\ clicks = 0
    /\ zooms = 0
    /\ switches = 0
    /\ undos = 0
    /\ projectInit = "pending"
    /\ edits = NoEdits
    /\ boolMenu = NoMenu
    /\ input = NoInput
    /\ script = << >>

\* what the user can do
UserNext ==
    \/ \E c \in Cursors : HandleCanvasClick(c)
    \/ \E c \in Cursors : HandleMouseMove(c)
    \/ HandleMouseUp
    \/ KeyEscape
    \/ KeyUndo
    \/ \E m \in Modes : SwitchTool(m)
    \/ \E c \in WheelCursors, z \in ZoomLevels : HandleWheel(c, z)

Next == UserNext \/ ProjectInit

Spec == Init /\ [][Next]_vars

\* ------------------------------------------------------------------------
\* ShapeModel.fromParent
\* ------------------------------------------------------------------------

\* structuredClone: a value that shares no object with its argument
StructuredClone(v) == v

\* a fromParent that carries no joinery over
FromParentNoJoinery(parentShape, newPoints, id, now) ==
    [ShapeCreate(newPoints, parentShape.name, id, now)
        EXCEPT !.thickness = parentShape.thickness]

\* ShapeModel.fromParent(parentShape, newPoints) with the id and the time
\* that ShapeModel.create obtains
FromParent(parentShape, newPoints, id, now) ==
    LET newShape == ShapeCreate(newPoints, parentShape.name, id, now)
        front == IF "FRONT" \in DOMAIN parentShape.faceData
                 THEN StructuredClone(parentShape.faceData.FRONT)
                 ELSE newShape.faceData.FRONT
        back == IF "BACK" \in DOMAIN parentShape.faceData
                THEN StructuredClone(parentShape.faceData.BACK)
                ELSE newShape.faceData.BACK
    IN [newShape EXCEPT !.thickness = parentShape.thickness,
                        !.faceData.FRONT = front,
                        !.faceData.BACK = back]

\* ------------------------------------------------------------------------
\* Slice2DOp (src/web/src/operations/slice2d-op.js)
\* ------------------------------------------------------------------------
DEFAULT_ANGLE_DEG == 90
MIN_ANGLE_DEG == 5
MAX_ANGLE_DEG == 175
CUT_LENGTH == 10000

\* Math.cos of 0..90 whole degrees, in 1/CosScale
CosScale == 10000
CosTable ==
    << 10000, 9998, 9994, 9986, 9976, 9962, 9945, 9925, 9903, 9877, 9848, 9816,
       9781, 9744, 9703, 9659, 9613, 9563, 9511, 9455, 9397, 9336, 9272, 9205,
       9135, 9063, 8988, 8910, 8829, 8746, 8660, 8572, 8480, 8387, 8290, 8192,
       8090, 7986, 7880, 7771, 7660, 7547, 7431, 7314, 7193, 7071, 6947, 6820,
       6691, 6561, 6428, 6293, 6157, 6018, 5878, 5736, 5592, 5446, 5299, 5150,
       5000, 4848, 4695, 4540, 4384, 4226, 4067, 3907, 3746, 3584, 3420, 3256,
       3090, 2924, 2756, 2588, 2419, 2250, 2079, 1908, 1736, 1564, 1392, 1219,
       1045, 872, 698, 523, 349, 175, 0 >>

\* Math.cos and Math.sin of d degrees (0..180), in 1/DirScale
Cos(d) ==
    IF d <= 90 THEN RoundDiv(CosTable[d + 1] * DirScale, CosScale)
    ELSE -RoundDiv(CosTable[181 - d] * DirScale, CosScale)

Sin(d) == IF d <= 90 THEN Cos(90 - d) ELSE Cos(d - 90)

\* Math.abs(Math.atan2(cross, dot)) * 180 / Math.PI for a unit vector, to
\* the whole degree
RECURSIVE FirstAngleBelow(_, _)
FirstAngleBelow(d, dot) ==
    IF d >= 180 \/ Cos(d) <= dot THEN d ELSE FirstAngleBelow(d + 1, dot)

AngleDeg(dot) ==
    LET d == FirstAngleBelow(0, dot)
    IN IF d > 0 /\ Cos(d - 1) - dot <= dot - Cos(d) THEN d - 1 ELSE d

\* Geometry.normalize of a vector in 1/U pixel: a unit vector in 1/DirScale
UnitVector(vec) ==
    LET m == ISqrt(vec.x * vec.x + vec.y * vec.y)
    IN IF m = 0 THEN [x |-> 0, y |-> 0]
       ELSE [x |-> RoundDiv(vec.x * DirScale, m), y |-> RoundDiv(vec.y * DirScale, m)]

\* rotateVector of a unit vector by the angle with the given cosine and
\* sine, normalized
RotateVector(vec, c, s) ==
    [x |-> RoundDiv(vec.x * c - vec.y * s, DirScale),
     y |-> RoundDiv(vec.x * s + vec.y * c, DirScale)]

\* { ...base, ...updates }
Spread(base, updates) ==
    IF base = UNDEF \/ base = NULL THEN updates
    ELSE [k \in DOMAIN base \cup DOMAIN updates |->
            IF k \in DOMAIN updates THEN updates[k] ELSE base[k]]

\* setSliceState
SetSliceState(S, updates) ==
    Dispatch(S, [ui |-> [slice2D |-> Spread(S.ui.slice2D, updates)]], FALSE)

\* the hits of the cut line with the edges from edge i on, without the
\* duplicates of earlier hits
RECURSIVE Intersections(_, _, _, _, _)
Intersections(pts, anchor, dir, i, found) ==
    IF i >= Len(pts) THEN found
    ELSE LET hit == LineIntersection(anchor, dir, CUT_LENGTH * U,
                                     pts[i + 1], pts[((i + 1) % Len(pts)) + 1])
             duplicate == \E k \in 1..Len(found) : Touches(found[k], hit)
         IN Intersections(pts, anchor, dir, i + 1,
                          IF hit # NULL /\ ~duplicate THEN Append(found, hit) ELSE found)

\* the pair loops of computeCutLine from the pair (i, j) on
RECURSIVE FarthestPair(_, _, _, _)
FarthestPair(hits, i, j, best) ==
    IF i > Len(hits) THEN best
    ELSE IF j > Len(hits) THEN FarthestPair(hits, i + 1, i + 2, best)
    ELSE LET d == Dist(hits[i], hits[j])
         IN FarthestPair(hits, i, j + 1,
                         IF d > best.maxD
                         THEN [maxD |-> d, start |-> hits[i], end |-> hits[j]]
                         ELSE best)

\* computeCutLine
ComputeCutLine(shape, anchor, dir) ==
    LET intersections == Intersections(shape.points, anchor, dir, 0, << >>)
    IN IF Len(intersections) < 2 THEN NULL
       ELSE LET best == FarthestPair(intersections, 1, 2,
                                     [maxD |-> 0, start |-> intersections[1],
                                      end |-> intersections[2]])
            IN [start |-> best.start, end |-> best.end]

\* the loops of findHoveredEdge from shape i (counting down) and edge j on
RECURSIVE ScanEdges(_, _, _, _, _, _)
ScanEdges(shapes, i, j, mouseWorld, toleranceWorld, best) ==
    IF i = 0 THEN best
    ELSE IF ~shapes[i].closed \/ Len(shapes[i].points) < 2 \/ j >= Len(shapes[i].points)
    THEN ScanEdges(shapes, i - 1, 0, mouseWorld, toleranceWorld, best)
    ELSE LET pts == shapes[i].points
             closest == ClosestPointOnSegment(mouseWorld, pts[j + 1],
                                              pts[((j + 1) % Len(pts)) + 1])
             dist == Dist(mouseWorld, closest)
         IN ScanEdges(shapes, i, j + 1, mouseWorld, toleranceWorld,
                      IF dist < toleranceWorld /\ (best = NULL \/ dist < best.dist)
                      THEN [shape |-> shapes[i], edgeIndex |-> j,
                            closestPoint |-> closest, dist |-> dist]
                      ELSE best)

\* findHoveredEdge
FindHoveredEdge(S, mouseWorld, toleranceWorld) ==
    ScanEdges(Shapes(S.document), Len(Shapes(S.document)), 0, mouseWorld,
              toleranceWorld, NULL)

\* the direction of edge edgeIndex of the shape
EdgeDir(shape, edgeIndex) ==
    LET p1 == shape.points[edgeIndex + 1]
        p2 == shape.points[((edgeIndex + 1) % Len(shape.points)) + 1]
    IN UnitVector([x |-> p2.x - p1.x, y |-> p2.y - p1.y])

\* STATE.document.shapes.find(s => s.id === id): the index, or 0
FindShape(S, id) ==
    LET shapes == Shapes(S.document)
    IN IF \E i \in 1..Len(shapes) : shapes[i].id = id
       THEN CHOOSE i \in 1..Len(shapes) :
               shapes[i].id = id /\ \A k \in 1..(i - 1) : shapes[k].id # id
       ELSE 0

\* applyAngleToCut with the cosine and sine of angleRad and its degrees
ApplyAngleToCut(S, shape, anchor, edgeDir, c, s, angleDeg) ==
    LET cutDir == RotateVector(edgeDir, c, s)
    IN SetSliceState(S, [activeShapeId |-> shape.id,
                         activeCut |-> ComputeCutLine(shape, anchor, cutDir),
                         anchor |-> anchor,
                         edgeDir |-> edgeDir,
                         cutDir |-> cutDir,
                         angleDeg |-> angleDeg,
                         edgeIndex |-> S.ui.slice2D.edgeIndex])

\* Slice2DOp.updateAngle
UpdateAngle(S, mouseWorld) ==
    LET sl == S.ui.slice2D
        idx == FindShape(S, sl.activeShapeId)
        vec == [x |-> mouseWorld.x - sl.anchor.x, y |-> mouseWorld.y - sl.anchor.y]
        len == ISqrt(vec.x * vec.x + vec.y * vec.y)
        dirVec == UnitVector(vec)
        dot == RoundDiv(sl.edgeDir.x * dirVec.x + sl.edgeDir.y * dirVec.y, DirScale)
        cross == RoundDiv(sl.edgeDir.x * dirVec.y - sl.edgeDir.y * dirVec.x, DirScale)
        sign == IF cross >= 0 THEN 1 ELSE -1
        raw == AngleDeg(dot)
        absAngle == Min(MAX_ANGLE_DEG, Max(raw, MIN_ANGLE_DEG))
    IN IF ~Truthy(sl.activeShapeId) \/ ~Truthy(sl.anchor) \/ ~Truthy(sl.edgeDir) THEN S
       ELSE IF idx = 0 THEN S
       ELSE IF len * 1000 < U THEN S
       ELSE IF absAngle = raw
       THEN ApplyAngleToCut(S, Shapes(S.document)[idx], sl.anchor, sl.edgeDir,
                            dot, cross, absAngle)
       ELSE ApplyAngleToCut(S, Shapes(S.document)[idx], sl.anchor, sl.edgeDir,
                            Cos(absAngle), sign * Sin(absAngle), absAngle)

\* Slice2DOp.reset
Slice2DReset(S) ==
    SetSliceState(S, [activeShapeId |-> NULL, activeCut |-> NULL, anchor |-> NULL,
                      edgeIndex |-> NULL, edgeDir |-> NULL, cutDir |-> NULL,
                      angleDeg |-> DEFAULT_ANGLE_DEG, isAdjusting |-> FALSE])

\* Slice2DOp.handleMouseMove
SliceMouseMove(S, mouseWorld, toleranceWorld) ==
    LET hovered == FindHoveredEdge(S, mouseWorld, toleranceWorld)
    IN IF S.ui.slice2D.isAdjusting THEN UpdateAngle(S, mouseWorld)
       ELSE IF hovered = NULL
       THEN SetSliceState(S, [activeShapeId |-> NULL, activeCut |-> NULL,
                              anchor |-> NULL, edgeIndex |-> NULL,
                              edgeDir |-> NULL, cutDir |-> NULL])
       ELSE LET edgeDir == EdgeDir(hovered.shape, hovered.edgeIndex)
                cutDir == RotateVector(edgeDir, Cos(DEFAULT_ANGLE_DEG),
                                       Sin(DEFAULT_ANGLE_DEG))
            IN SetSliceState(S, [activeShapeId |-> hovered.shape.id,
                                 activeCut |-> ComputeCutLine(hovered.shape,
                                                  hovered.closestPoint, cutDir),
                                 anchor |-> hovered.closestPoint,
                                 edgeIndex |-> hovered.edgeIndex,
                                 edgeDir |-> edgeDir,
                                 cutDir |-> cutDir,
                                 angleDeg |-> DEFAULT_ANGLE_DEG])

\* Slice2DOp.handleMouseDown
SliceMouseDown(S, mouseWorld, toleranceWorld) ==
    LET hovered == FindHoveredEdge(S, mouseWorld, toleranceWorld)
    IN IF hovered = NULL THEN S
       ELSE UpdateAngle(
              SetSliceState(S, [activeShapeId |-> hovered.shape.id,
                                anchor |-> hovered.closestPoint,
                                edgeIndex |-> hovered.edgeIndex,
                                edgeDir |-> EdgeDir(hovered.shape, hovered.edgeIndex),
                                isAdjusting |-> TRUE]),
              mouseWorld)

\* Slice2DOp.handleMouseUp
SliceMouseUp(S) ==
    IF ~S.ui.slice2D.isAdjusting THEN S
    ELSE SetSliceState(S, [isAdjusting |-> FALSE])

\* the two shapes of Slice2DOp.handleClick.  Both point lists hold the same
\* two cut-point objects, and the second ShapeModel.create writes the
\* lengthToNext of its list into them
SliceShapes(S, shape, splitPoints) ==
    LET shapeA == FromParent(shape, splitPoints[1], ShapeId(S.nextId + 1), S.clock + 1)
        shapeB == FromParent(shape, splitPoints[2], ShapeId(S.nextId + 2), S.clock + 2)
        nA == Len(shapeA.points)
        nB == Len(shapeB.points)
    IN << [shapeA EXCEPT !.points[1] = shapeB.points[nB],
                         !.points[nA] = shapeB.points[1]],
          shapeB >>

\* a filter that removes nothing
KeepAll(shapes, id) == shapes

\* the shapes whose id is not the given one
RECURSIVE WithoutId(_, _)
WithoutId(shapes, id) ==
    IF shapes = << >> THEN << >>
    ELSE IF Head(shapes).id = id THEN WithoutId(Tail(shapes), id)
    ELSE << Head(shapes) >> \o WithoutId(Tail(shapes), id)

\* a click that resets the slice state whatever splitPolygon returned
SliceClickAlwaysResets(S) ==
    LET sl == S.ui.slice2D
        idx == FindShape(S, sl.activeShapeId)
        shape == Shapes(S.document)[idx]
        splitPoints == SplitPolygon(shape.points, sl.activeCut.start, sl.activeCut.end)
        made == SliceShapes(S, shape, splitPoints)
        newShapes == WithoutId(Shapes(S.document), shape.id) \o made
    IN IF ~Truthy(sl.activeCut) \/ ~Truthy(sl.activeShapeId) THEN S
       ELSE IF idx = 0 THEN S
       ELSE IF splitPoints = NULL THEN Slice2DReset(S)
       ELSE Slice2DReset(
              Dispatch([S EXCEPT !.nextId = S.nextId + 2, !.clock = S.clock + 2],
                       [document |-> [shapes |-> newShapes],
                        ui |-> [selectedShapeId |-> NULL]],
                       FALSE))

\* Slice2DOp.handleClick
SliceClick(S) ==
    LET sl == S.ui.slice2D
        idx == FindShape(S, sl.activeShapeId)
        shape == Shapes(S.document)[idx]
        splitPoints == SplitPolygon(shape.points, sl.activeCut.start, sl.activeCut.end)
        made == SliceShapes(S, shape, splitPoints)
        newShapes == WithoutId(Shapes(S.document), shape.id) \o made
    IN IF ~Truthy(sl.activeCut) \/ ~Truthy(sl.activeShapeId) THEN S
       ELSE IF idx = 0 THEN S
       ELSE IF splitPoints = NULL THEN S
       ELSE Slice2DReset(
              Dispatch([S EXCEPT !.nextId = S.nextId + 2, !.clock = S.clock + 2],
                       [document |-> [shapes |-> newShapes],
                        ui |-> [selectedShapeId |-> NULL]],
                       FALSE))

\* ------------------------------------------------------------------------
\* Sketches in progress: states the handlers above produce from InitState
\* when the user draws along the corners of a triangle
\* ------------------------------------------------------------------------
CornerA == [x |-> 40 * U, y |-> 40 * U]
CornerB == [x |-> 80 * U, y |-> 40 * U]
CornerC == [x |-> 80 * U, y |-> 80 * U]

\* move to the cursor, then click there
MoveAndClick(S, c) ==
    LET moved == MouseMove(S, c)
    IN CanvasClick(moved, c).st

ClickAt(c) == [kind |-> "click", at |-> c]
PressTool(m) == [kind |-> "tool", mode |-> m]

\* click A, pick east, commit B, pick south
OneSide == << ClickAt(CornerA), ClickAt(CornerB), ClickAt(CornerB), ClickAt(CornerC) >>

\* then commit C and pick north
TwoSides == OneSide \o << ClickAt(CornerC), ClickAt(CornerB) >>

\* then close the triangle on A and press the Draw button
Triangle == TwoSides \o << ClickAt(CornerA), PressTool("DRAW") >>

\* the handler a gesture of the session runs
Gesture(S, g) ==
    IF g.kind = "click" THEN MoveAndClick(S, g.at) ELSE SwitchToolState(S, g.mode)

\* the next gesture of the opening session
Replay ==
    /\ script # << >>
    /\ Install(Gesture(Cur, Head(script)))
    /\ script' = Tail(script)
    /\ lastOp' = [op |-> "session", pre |-> "-", ret |-> RetNull]
    /\ UNCHANGED <<clicks, zooms, switches, undos, projectInit, edits, boolMenu, input>>

\* the project list has arrived; the session draws a triangle and then a
\* second sketch with one or two sides and a direction for the next
SketchInit ==
    /\ ui = ProjectLoaded(InitState).ui
    /\ document = ProjectLoaded(InitState).document
    /\ history = InitState.history
    /\ nextId = InitState.nextId
    /\ clock = InitState.clock
    /\ lastOp = [op |-> "projectInit", pre |-> "-", ret |-> RetNull]
    /\ clicks = 0
    /\ zooms = 0
    /\ switches = 0
    /\ undos = 0
    /\ projectInit = "done"
    /\ edits = NoEdits
    /\ boolMenu = NoMenu
    /\ input = NoInput
    /\ \/ script = Triangle \o OneSide
       \/ script = Triangle \o TwoSides

SketchNext ==
    \/ Replay
    \/ script = << >> /\ UserNext

SpecSketch == SketchInit /\ [][SketchNext]_vars

\* the session draws two sides and a direction for the third while
\* ProjectOp.init() is still waiting for the database
EarlySketchInit ==
    /\ ui = InitState.ui
    /\ document = InitState.document
    /\ history = InitState.history
    /\ nextId = InitState.nextId
    /\ clock = InitState.clock
    /\ lastOp = [op |-> "init", pre |-> "-", ret |-> RetNull]
    /\ clicks = 0
    /\ zooms = 0
    /\ switches = 0
    /\ undos = 0
    /\ projectInit = "pending"
    /\ edits = NoEdits
    /\ boolMenu = NoMenu
    /\ input = NoInput
    /\ script = TwoSides

EarlySketchNext ==
    \/ Replay
    \/ script = << >> /\ Next

SpecEarlySketch == EarlySketchInit /\ [][EarlySketchNext]_vars

\* ------------------------------------------------------------------------
\* Measuring a line: the session starts a shape at A and picks east or
\* south, then the pointer sweeps along the line and the wheel zooms
\* ------------------------------------------------------------------------
CornerD == [x |-> 40 * U, y |-> 80 * U]

\* sweep positions per axis, a quarter of a screen pixel apart
SweepSteps == 60

\* pointer positions of the sweep (screen, 1/U pixel): 100 to 115 px and
\* 140.5 px, along x and along y
SweepOffsets == { 100 * U + (k * U) \div 4 : k \in 0..SweepSteps } \cup { (281 * U) \div 2 }

SweepCursors ==
    { [x |-> o, y |-> 40 * U] : o \in SweepOffsets } \cup
    { [x |-> 40 * U, y |-> o] : o \in SweepOffsets }

\* zoom factors of the sweep: 1, 4 and CONFIG.ZOOM.MAX
SweepZooms == { ZoomScale, 4 * ZoomScale, 20 * ZoomScale }

SweepInit ==
    /\ ui = ProjectLoaded(InitState).ui
    /\ document = ProjectLoaded(InitState).document
    /\ history = InitState.history
    /\ nextId = InitState.nextId
    /\ clock = InitState.clock
    /\ lastOp = [op |-> "projectInit", pre |-> "-", ret |-> RetNull]
    /\ clicks = 0
    /\ zooms = 0
    /\ switches = 0
    /\ undos = 0
    /\ projectInit = "done"
    /\ edits = NoEdits
    /\ boolMenu = NoMenu
    /\ input = NoInput
    /\ \/ script = << ClickAt(CornerA), ClickAt(CornerB) >>
       \/ script = << ClickAt(CornerA), ClickAt(CornerD) >>

SweepNext ==
    \/ Replay
    \/ script = << >> /\ \E c \in SweepCursors : HandleMouseMove(c)
    \/ script = << >> /\ \E z \in SweepZooms : HandleWheel(CornerA, z)

SpecSweep == SweepInit /\ [][SweepNext]_vars

\* ------------------------------------------------------------------------
\* JoineryOp.addTenon and DocumentOp.handleJSONImport
\* ------------------------------------------------------------------------

\* STATE.selectedShape (getter): the index of the selected shape, or 0
SelectedShapeIndex(S) == FindShape(S, S.ui.selectedShapeId)

\* shapes.map(s => s.id === id ? newShape : s)
ReplaceShape(shapes, id, newShape) ==
    [i \in 1..Len(shapes) |-> IF shapes[i].id = id THEN newShape ELSE shapes[i]]

\* TenonModel.create, lengths in 1/InchScale inch
TenonCreate(x, y, w, h, depth, inset) ==
    [x |-> x, y |-> y, w |-> w, h |-> h, depth |-> depth, inset |-> inset]

\* Geometry.calculateCentroid
RECURSIVE SumOf(_, _)
SumOf(points, axis) ==
    IF points = << >> THEN 0 ELSE Head(points)[axis] + SumOf(Tail(points), axis)

CalculateCentroid(points) ==
    IF Len(points) = 0 THEN XY(0, 0)
    ELSE XY(RoundDiv(SumOf(points, "x"), Len(points)),
            RoundDiv(SumOf(points, "y"), Len(points)))

\* inches (1/InchScale) to pixels (1/U), and back
InchesToPixels(v) == RoundDiv(v * SCALE_PIXELS_PER_INCH * U, InchScale)
PixelsToInches(v) == RoundDiv(v * InchScale, SCALE_PIXELS_PER_INCH * U)

\* JoineryOp.calculateMirrorPosition
CalculateMirrorPosition(shape, tenons) ==
    LET last == tenons[Len(tenons)]
        startPt == shape.points[1]
        centroid == CalculateCentroid(shape.points)
        lastCenter == XY(startPt.x + InchesToPixels(last.x + RoundDiv(last.w, 2)),
                         startPt.y + InchesToPixels(last.y + RoundDiv(last.h, 2)))
    IN XY(centroid.x - (lastCenter.x - centroid.x),
          centroid.y - (lastCenter.y - centroid.y))

\* the loop of addTenon from edge i on: the point of the outline closest to
\* the target
RECURSIVE ClosestOnOutline(_, _, _, _)
ClosestOnOutline(pts, target, i, best) ==
    IF i >= Len(pts) THEN best
    ELSE LET closest == ClosestPointOnSegment(target, pts[i + 1],
                                              pts[((i + 1) % Len(pts)) + 1])
             d == Dist(target, closest)
         IN ClosestOnOutline(pts, target, i + 1,
                             IF best = NULL \/ d < best.minD
                             THEN [minD |-> d, bestPt |-> closest] ELSE best)

\* an addTenon that never mirrors
NextTenonDefault(shape, tenons) ==
    TenonCreate(0, 0, 2 * InchScale, InchScale, shape.thickness, 0)

\* the tenon JoineryOp.addTenon pushes, or NULL when it pushes none
NextTenon(shape, tenons) ==
    LET last == tenons[Len(tenons)]
        found == ClosestOnOutline(shape.points,
                                  CalculateMirrorPosition(shape, tenons), 0, NULL)
        startPt == shape.points[1]
    IN IF Len(tenons) = 0
       THEN TenonCreate(0, 0, 2 * InchScale, InchScale, shape.thickness, 0)
       ELSE IF shape.activeFace # "FRONT"
       THEN TenonCreate(last.x + 2 * InchScale, 0, 2 * InchScale, InchScale,
                        shape.thickness, 0)
       ELSE IF found = NULL THEN NULL
       ELSE TenonCreate(
              PixelsToInches(found.bestPt.x - InchesToPixels(RoundDiv(last.w, 2)) - startPt.x),
              PixelsToInches(found.bestPt.y - InchesToPixels(RoundDiv(last.h, 2)) - startPt.y),
              last.w, last.h, shape.thickness, last.inset)

\* JoineryOp.addTenon
AddTenon(S) ==
    LET idx == SelectedShapeIndex(S)
        shape == Shapes(S.document)[idx]
        face == IF shape.activeFace \in DOMAIN shape.faceData
                THEN shape.faceData[shape.activeFace] ELSE EmptyFace
        tenon == NextTenon(shape, face.tenons)
        newFace == [face EXCEPT !.tenons = IF tenon = NULL THEN @ ELSE Append(@, tenon)]
        newShape == [shape EXCEPT !.faceData =
                        [f \in DOMAIN shape.faceData \cup {shape.activeFace} |->
                            IF f = shape.activeFace THEN newFace ELSE shape.faceData[f]]]
    IN IF idx = 0 THEN S
       ELSE Dispatch(S, [document |-> [shapes |->
                           ReplaceShape(Shapes(S.document), shape.id, newShape)]],
                     FALSE)

\* the text of the JSON panel after the user replaced the points of the
\* exported shape
EditedJSON(shape, points) == [StructuredClone(shape) EXCEPT !.points = points]

\* DocumentOp.handleJSONImport with the parsed text
JSONImport(S, imported) ==
    LET idx == SelectedShapeIndex(S)
        shape == Shapes(S.document)[idx]
        merged == Spread(shape, imported)
        newShape == [merged EXCEPT !.points = RecalculateSideLengths(merged.points)]
    IN IF idx = 0 THEN S
       ELSE Dispatch(S, [document |-> [shapes |->
                           ReplaceShape(Shapes(S.document), shape.id, newShape)]],
                     FALSE)

\* ------------------------------------------------------------------------
\* Editing: the session draws the triangles A-B-C and A-D-C; the user then
\* selects, slices, adds tenons and edits the JSON of the selected shape
\* ------------------------------------------------------------------------
MaxSlices == 1
MaxImports == 1
MaxTenons == 1

\* pointer positions of the slice and select tools (world, 1/U pixel): on
\* the edges A-B and B-C of the first triangle and A-D of the second
SliceCursors == { XY(20 * U, 0), XY(40 * U, 20 * U), XY(0, 20 * U) }

\* the hover tolerance the slice tool is called with (world, 1/U pixel)
SliceTolerance == 5 * U

\* the points the user types into the JSON panel: a square
ImportPoints == << XY(0, 0), XY(40 * U, 0), XY(40 * U, 40 * U), XY(0, 40 * U) >>

\* then draw A-D-C: pick south, commit D, pick east, commit C, pick north,
\* close on A
TwoTriangles ==
    Triangle \o << ClickAt(CornerA), ClickAt(CornerD), ClickAt(CornerD), ClickAt(CornerC),
                   ClickAt(CornerC), ClickAt(CornerB), ClickAt(CornerA) >>

\* SelectionOp.updateHoverState from shape i (counting down) and edge j on
RECURSIVE ScanHover(_, _, _, _, _)
ScanHover(shapes, i, j, mouseWorld, zoom) ==
    IF i = 0 THEN NULL
    ELSE IF j >= Len(shapes[i].points)
    THEN ScanHover(shapes, i - 1, 0, mouseWorld, zoom)
    ELSE LET pts == shapes[i].points
             p1 == pts[j + 1]
             p2 == pts[((j + 1) % Len(pts)) + 1]
             skip == \/ ~shapes[i].closed /\ j = Len(pts) - 1
                     \/ p1.x = p2.x /\ p1.y = p2.y
             proj == ClosestPointOnSegment(mouseWorld, p1, p2)
         IN IF ~skip /\ Dist(mouseWorld, proj) * zoom < CLICK_TOLERANCE_SCREEN_PX * U * ZoomScale
            THEN shapes[i].id
            ELSE ScanHover(shapes, i, j + 1, mouseWorld, zoom)

UpdateHoverState(S, mouseWorld) ==
    [S EXCEPT !.ui.hoveredShapeId =
        ScanHover(Shapes(S.document), Len(Shapes(S.document)), 0, mouseWorld,
                  S.ui.view.zoom)]

\* SelectionOp.handleSelect
HandleSelect(S, ctrlKey) ==
    IF Truthy(S.ui.hoveredShapeId)
    THEN [S EXCEPT !.ui.selectedShapeId = S.ui.hoveredShapeId]
    ELSE IF ~ctrlKey THEN [S EXCEPT !.ui.selectedShapeId = NULL]
    ELSE S

\* Input.handleMouseMove and Input.handleCanvasClick in SELECT mode: the
\* pointer moves over mouseWorld and clicks
HandleSelectAt(mouseWorld) ==
    /\ ui.mode = "SELECT"
    /\ Install(HandleSelect(UpdateHoverState(Cur, mouseWorld), FALSE))
    /\ lastOp' = Op("select", RetNull)
    /\ UNCHANGED <<clicks, zooms, switches, undos, projectInit, script, edits, boolMenu, input>>

HandleSliceMove(mouseWorld) ==
    /\ edits.slices < MaxSlices
    /\ Install(SliceMouseMove(Cur, mouseWorld, SliceTolerance))
    /\ lastOp' = Op("sliceMove", RetNull)
    /\ UNCHANGED <<clicks, zooms, switches, undos, projectInit, script, edits, boolMenu, input>>

HandleSliceDown(mouseWorld) ==
    /\ edits.slices < MaxSlices
    /\ Install(SliceMouseDown(Cur, mouseWorld, SliceTolerance))
    /\ lastOp' = Op("sliceDown", RetNull)
    /\ UNCHANGED <<clicks, zooms, switches, undos, projectInit, script, edits, boolMenu, input>>

HandleSliceUp ==
    /\ edits.slices < MaxSlices
    /\ Install(SliceMouseUp(Cur))
    /\ lastOp' = Op("sliceUp", RetNull)
    /\ UNCHANGED <<clicks, zooms, switches, undos, projectInit, script, edits, boolMenu, input>>

HandleSliceClick ==
    /\ edits.slices < MaxSlices
    /\ Install(SliceClick(Cur))
    /\ lastOp' = Op("sliceClick", RetNull)
    /\ edits' = [edits EXCEPT !.slices = IF document' # document THEN @ + 1 ELSE @]
    /\ UNCHANGED <<clicks, zooms, switches, undos, projectInit, script, boolMenu, input>>

HandleAddTenon ==
    /\ edits.tenons < MaxTenons
    /\ Install(AddTenon(Cur))
    /\ lastOp' = Op("addTenon", RetNull)
    /\ edits' = [edits EXCEPT !.tenons = IF document' # document THEN @ + 1 ELSE @]
    /\ UNCHANGED <<clicks, zooms, switches, undos, projectInit, script, boolMenu, input>>

HandleJSONImport ==
    /\ edits.imports < MaxImports
    /\ SelectedShapeIndex(Cur) # 0
    /\ Install(JSONImport(Cur, EditedJSON(Shapes(document)[SelectedShapeIndex(Cur)], ImportPoints)))
    /\ lastOp' = Op("jsonImport", RetNull)
    /\ edits' = [edits EXCEPT !.imports = @ + 1]
    /\ UNCHANGED <<clicks, zooms, switches, undos, projectInit, script, boolMenu, input>>

EditInit ==
    /\ ui = Slice2DReset(ProjectLoaded(InitState)).ui
    /\ document = ProjectLoaded(InitState).document
    /\ history = InitState.history
    /\ nextId = InitState.nextId
    /\ clock = InitState.clock
    /\ lastOp = [op |-> "projectInit", pre |-> "-", ret |-> RetNull]
    /\ clicks = 0
    /\ zooms = 0
    /\ switches = 0
    /\ undos = 0
    /\ projectInit = "done"
    /\ edits = NoEdits
    /\ boolMenu = NoMenu
    /\ input = NoInput
    /\ script = TwoTriangles

EditNext ==
    \/ Replay
    \/ script = << >> /\ \E m \in SliceCursors : HandleSelectAt(m)
    \/ script = << >> /\ \E m \in SliceCursors : HandleSliceMove(m)
    \/ script = << >> /\ \E m \in SliceCursors : HandleSliceDown(m)
    \/ script = << >> /\ HandleSliceUp
    \/ script = << >> /\ HandleSliceClick
    \/ script = << >> /\ HandleAddTenon
    \/ script = << >> /\ HandleJSONImport

SpecEdit == EditInit /\ [][EditNext]_vars

\* ------------------------------------------------------------------------
\* Splitting: Geometry.splitPolygon applied to a polygon and two cut points
\* ------------------------------------------------------------------------

\* the square of the specification, in 1/U pixel
TenSquare == << XY(0, 0), XY(10 * U, 0), XY(10 * U, 10 * U), XY(0, 10 * U) >>

\* polygons to split: the square, the triangle A-B-C, a part a slice cut
\* off it, a pentagon and an L
SplitPolygons ==
    { TenSquare,
      << XY(0, 0), XY(40 * U, 0), XY(40 * U, 40 * U) >>,
      << XY(20 * U, 0), XY(40 * U, 0), XY(40 * U, 40 * U), XY(20 * U, 20 * U) >>,
      << XY(0, 0), XY(20 * U, 0), XY(30 * U, 10 * U), XY(20 * U, 30 * U), XY(0, 20 * U) >>,
      << XY(0, 0), XY(40 * U, 0), XY(40 * U, 20 * U), XY(20 * U, 20 * U),
         XY(20 * U, 40 * U), XY(0, 40 * U) >> }

\* cut points to try on a polygon: the middle of every edge, every corner
\* and a point off the outline
CutProbes(pts) ==
    { XY((pts[i].x + pts[(i % Len(pts)) + 1].x) \div 2,
         (pts[i].y + pts[(i % Len(pts)) + 1].y) \div 2) : i \in 1..Len(pts) }
    \cup { XY(pts[i].x, pts[i].y) : i \in 1..Len(pts) }
    \cup { XY(7 * U, 3 * U) }

\* the arguments of a call
SplitCall(pts, cutStart, cutEnd) ==
    [op |-> "splitPolygon", pre |-> "call",
     ret |-> [kind |-> "arguments", pts |-> pts, cutStart |-> cutStart, cutEnd |-> cutEnd]]

SplitInit ==
    /\ ui = Slice2DReset(ProjectLoaded(InitState)).ui
    /\ document = ProjectLoaded(InitState).document
    /\ history = InitState.history
    /\ nextId = InitState.nextId
    /\ clock = InitState.clock
    /\ clicks = 0
    /\ zooms = 0
    /\ switches = 0
    /\ undos = 0
    /\ projectInit = "done"
    /\ edits = NoEdits
    /\ boolMenu = NoMenu
    /\ input = NoInput
    /\ script = << >>
    /\ \E pts \in SplitPolygons : \E a, b \in CutProbes(pts) : lastOp = SplitCall(pts, a, b)

\* Geometry.splitPolygon returns
SplitReturn ==
    /\ lastOp.pre = "call"
    /\ lastOp' = [op |-> "splitPolygon", pre |-> "return",
                  ret |-> [kind |-> "loops",
                          pts |-> lastOp.ret.pts,
                          cutStart |-> lastOp.ret.cutStart,
                          cutEnd |-> lastOp.ret.cutEnd,
                          loops |-> SplitPolygon(lastOp.ret.pts, lastOp.ret.cutStart,
                                                 lastOp.ret.cutEnd)]]
    /\ UNCHANGED <<ui, document, history, nextId, clock, clicks, zooms, switches, undos,
                   projectInit, script, edits, boolMenu, input>>

SpecSplit == SplitInit /\ [][SplitReturn]_vars

\* ------------------------------------------------------------------------
\* Shape drags and the boolean menu (Input in view-controller.js,
\* DraggingOp, BooleanOps, DocumentOp.deleteSelectedShape)
\* ------------------------------------------------------------------------

\* BooleanOps.toPolygon: one ring of [x, y] pairs, closed if it was open
ToPolygon(shape) ==
    LET ring == [i \in 1..Len(shape.points) |-> << shape.points[i].x, shape.points[i].y >>]
    IN << IF Len(ring) > 0 /\ ring[1] # ring[Len(ring)]
          THEN Append(ring, ring[1]) ELSE ring >>

\* BooleanOps.fromPolygon: the first ring without its closing point
FromPolygon(poly) ==
    IF Len(poly) = 0 \/ Len(poly[1]) = 0 THEN << >>
    ELSE [i \in 1..(Len(poly[1]) - 1) |-> XY(poly[1][i][1], poly[1][i][2])]

\* getBounds of BooleanOps.checkIntersection
Bounds(pts) ==
    LET xs == { pts[i].x : i \in 1..Len(pts) }
        ys == { pts[i].y : i \in 1..Len(pts) }
    IN [minX |-> CHOOSE m \in xs : \A v \in xs : m <= v,
        maxX |-> CHOOSE m \in xs : \A v \in xs : m >= v,
        minY |-> CHOOSE m \in ys : \A v \in ys : m <= v,
        maxY |-> CHOOSE m \in ys : \A v \in ys : m >= v]

\* BooleanOps.checkIntersection
CheckIntersection(shapeA, shapeB) ==
    LET bA == Bounds(shapeA.points)
        bB == Bounds(shapeB.points)
    IN ~(bB.minX > bA.maxX \/ bB.maxX < bA.minX \/ bB.minY > bA.maxY \/ bB.maxY < bA.minY)

\* polygon-clipping is loaded from the network and is no part of the
\* repository: for two polygons it returns a MultiPolygon that is empty or
\* holds one polygon, here the rectangle around both operands
ClipResults(polyA, polyB) ==
    LET ring == polyA[1] \o polyB[1]
        b == Bounds([i \in 1..Len(ring) |-> XY(ring[i][1], ring[i][2])])
    IN { << >>,
         << << << << b.minX, b.minY >>, << b.maxX, b.minY >>, << b.maxX, b.maxY >>,
                  << b.minX, b.maxY >>, << b.minX, b.minY >> >> >> >> }

\* BooleanOps.union and BooleanOps.subtract on what polygonClipping returned
ClipPoints(result) == IF Len(result) = 0 THEN NULL ELSE FromPolygon(result[1])

\* ui.dragging.type while a shape is dragged
SHAPE == [tag |-> "SHAPE"]

\* STATE.hoveredShape, STATE.selectedShape: the shape with this id
ShapeRef(S, id) ==
    IF FindShape(S, id) = 0 THEN UNDEF
    ELSE Ref(Shapes(S.document)[FindShape(S, id)], TRUE)

\* Input.hideBooleanMenu
HideBooleanMenu(menu) == [menu EXCEPT !.hidden = TRUE]

\* the joinery of the selected shape's active face, which handleMouseDown
\* searches before it starts a shape drag
SelectedJoinery(S) ==
    IF SelectedShapeIndex(S) = 0 THEN << >>
    ELSE LET shape == Shapes(S.document)[SelectedShapeIndex(S)]
             activeFace == IF shape.activeFace = "" THEN "FRONT" ELSE shape.activeFace
             face == IF activeFace \in DOMAIN shape.faceData
                     THEN shape.faceData[activeFace] ELSE EmptyFace
         IN face.cutouts \o face.tenons

\* Input.handleMouseDown with the left button in SELECT mode, space not held,
\* no joinery on the selected shape's face
BoolMouseDown(B, mouseWorld, ctrlKey) ==
    LET S == B.st
        dragging == [type |-> SHAPE, item |-> ShapeRef(S, S.ui.hoveredShapeId),
                     lastPos |-> mouseWorld, isCloneMode |-> ctrlKey]
    IN [st |-> IF S.ui.mode = "SELECT" /\ Truthy(S.ui.hoveredShapeId)
               THEN [S EXCEPT !.ui.dragging = dragging] ELSE S,
        menu |-> HideBooleanMenu(B.menu)]

\* `${shape.name} (Copy)`: one more " (Copy)" at the end of the name
CopyName(name) ==
    [n |-> name.n, base |-> name.base,
     copy |-> IF "copy" \in DOMAIN name THEN name.copy + 1 ELSE 1]

\* the clone branch that leaves isCloneMode as it found it
CloneShapeStaysCloning(B, mouseWorld) ==
    LET S == B.st
        dragging == S.ui.dragging
        shape == dragging.item.obj
        dx == mouseWorld.x - dragging.lastPos.x
        dy == mouseWorld.y - dragging.lastPos.y
        newId == ShapeId(S.nextId + 1)
        newShape == [shape EXCEPT
                        !.id = newId,
                        !.name = CopyName(shape.name),
                        !.lastModified = S.clock + 1,
                        !.points = [i \in 1..Len(shape.points) |->
                                      [shape.points[i] EXCEPT !.x = @ + dx,
                                                              !.y = @ + dy]]]
    IN [st |-> Dispatch([S EXCEPT !.nextId = S.nextId + 1, !.clock = S.clock + 1],
                        [document |-> [shapes |-> Append(Shapes(S.document), newShape)],
                         ui |-> [selectedShapeId |-> newId,
                                 dragging |-> [dragging EXCEPT
                                                 !.item = Ref(newShape, TRUE),
                                                 !.isCloneMode = @,
                                                 !.lastPos = mouseWorld]]],
                        TRUE),
        menu |-> B.menu]

\* DraggingOp.update, `if (dragging.isCloneMode) {...}`: a copy of the
\* dragged shape, shifted, becomes the dragged item
CloneShape(B, mouseWorld) ==
    LET S == B.st
        dragging == S.ui.dragging
        shape == dragging.item.obj
        dx == mouseWorld.x - dragging.lastPos.x
        dy == mouseWorld.y - dragging.lastPos.y
        newId == ShapeId(S.nextId + 1)
        newShape == [shape EXCEPT
                        !.id = newId,
                        !.name = CopyName(shape.name),
                        !.lastModified = S.clock + 1,
                        !.points = [i \in 1..Len(shape.points) |->
                                      [shape.points[i] EXCEPT !.x = @ + dx,
                                                              !.y = @ + dy]]]
    IN [st |-> Dispatch([S EXCEPT !.nextId = S.nextId + 1, !.clock = S.clock + 1],
                        [document |-> [shapes |-> Append(Shapes(S.document), newShape)],
                         ui |-> [selectedShapeId |-> newId,
                                 dragging |-> [dragging EXCEPT
                                                 !.item = Ref(newShape, TRUE),
                                                 !.isCloneMode = FALSE,
                                                 !.lastPos = mouseWorld]]],
                        TRUE),
        menu |-> B.menu]

\* the move branch that does not record where the pointer is
MoveShapeKeepsLastPos(B, mouseWorld) ==
    LET dragging == B.st.ui.dragging
        shape == dragging.item.obj
        dx == mouseWorld.x - dragging.lastPos.x
        dy == mouseWorld.y - dragging.lastPos.y
        shapes == Shapes(B.st.document)
        inDoc == shape.id \in ShapeIds(shapes)
        B1 == DetachAll(B, IF inDoc THEN {shape.id} ELSE {})
        S == B1.st
        newPoints == [i \in 1..Len(shape.points) |->
                         [x |-> shape.points[i].x + dx,
                          y |-> shape.points[i].y + dy,
                          lengthToNext |-> shape.points[i].lengthToNext]]
        newShape == [shape EXCEPT !.points = newPoints,
                                  !.lastModified = S.clock + 1]
        newShapes == [i \in 1..Len(shapes) |->
                         IF shapes[i].id = shape.id THEN newShape ELSE shapes[i]]
    IN [st |-> Dispatch([S EXCEPT !.clock = S.clock + 1],
                        [document |-> [shapes |-> newShapes],
                         ui |-> [dragging |-> [dragging EXCEPT
                                                 !.lastPos = @,
                                                 !.item = Ref(newShape, inDoc)]]],
                        FALSE),
        menu |-> B1.menu]

\* DraggingOp.update, the regular move: a new shape object with translated
\* points replaces the dragged one
MoveShape(B, mouseWorld) ==
    LET dragging == B.st.ui.dragging
        shape == dragging.item.obj
        dx == mouseWorld.x - dragging.lastPos.x
        dy == mouseWorld.y - dragging.lastPos.y
        shapes == Shapes(B.st.document)
        inDoc == shape.id \in ShapeIds(shapes)
        B1 == DetachAll(B, IF inDoc THEN {shape.id} ELSE {})
        S == B1.st
        newPoints == [i \in 1..Len(shape.points) |->
                         [x |-> shape.points[i].x + dx,
                          y |-> shape.points[i].y + dy,
                          lengthToNext |-> shape.points[i].lengthToNext]]
        newShape == [shape EXCEPT !.points = newPoints,
                                  !.lastModified = S.clock + 1]
        newShapes == [i \in 1..Len(shapes) |->
                         IF shapes[i].id = shape.id THEN newShape ELSE shapes[i]]
    IN [st |-> Dispatch([S EXCEPT !.clock = S.clock + 1],
                        [document |-> [shapes |-> newShapes],
                         ui |-> [dragging |-> [dragging EXCEPT
                                                 !.lastPos = mouseWorld,
                                                 !.item = Ref(newShape, inDoc)]]],
                        FALSE),
        menu |-> B1.menu]

\* DraggingOp.update while a shape is dragged; shape.points of an undefined
\* item throws
DraggingUpdate(B, mouseWorld) ==
    LET dragging == B.st.ui.dragging
    IN IF dragging.type # SHAPE \/ ~IsRef(dragging.item) THEN B
       ELSE IF dragging.isCloneMode THEN CloneShape(B, mouseWorld)
       ELSE MoveShape(B, mouseWorld)

\* Input.handleMouseMove in SELECT mode, 3D view closed, not panning
BoolMouseMove(B, mouseWorld) ==
    IF Truthy(B.st.ui.dragging.type) THEN DraggingUpdate(B, mouseWorld)
    ELSE [st |-> UpdateHoverState(B.st, mouseWorld), menu |-> B.menu]

\* shapes.find(s => s !== active && s.closed && checkIntersection(active, s))
RECURSIVE FindTarget(_, _, _)
FindTarget(shapes, active, i) ==
    IF i > Len(shapes) THEN 0
    ELSE IF /\ ~(active.live /\ shapes[i].id = active.obj.id)
            /\ shapes[i].closed
            /\ CheckIntersection(active.obj, shapes[i])
    THEN i
    ELSE FindTarget(shapes, active, i + 1)

\* Input.handleMouseUp, not panning: after a shape drag it may start the
\* timeout that offers the boolean menu; active.activeFace of an undefined
\* item throws
BoolMouseUp(B) ==
    LET S == MouseUp(B.st)
        dragging == S.ui.dragging
        released == [S EXCEPT !.ui.dragging.type = NULL, !.ui.dragging.item = NULL]
    IN IF dragging.type # SHAPE THEN [st |-> released, menu |-> B.menu]
       ELSE IF ~IsRef(dragging.item) THEN [st |-> S, menu |-> B.menu]
       ELSE LET active == dragging.item
                shapes == Shapes(S.document)
                isFront == active.obj.activeFace \in {"", "FRONT"}
                t == FindTarget(shapes, active, 1)
            IN [st |-> released,
                menu |-> IF isFront /\ t # 0
                         THEN [B.menu EXCEPT !.timeouts =
                                 Append(@, [active |-> active,
                                            target |-> Ref(shapes[t], TRUE)])]
                         ELSE B.menu]

\* the callback of the timeout handleMouseUp started
ShowBooleanMenu(B) ==
    [st |-> [B.st EXCEPT !.ui.boolCandidate = Head(B.menu.timeouts)],
     menu |-> [hidden |-> FALSE, timeouts |-> Tail(B.menu.timeouts)]]

\* shapes.filter(s => s !== active && s !== target)
RECURSIVE WithoutRefs(_, _, _)
WithoutRefs(shapes, active, target) ==
    IF shapes = << >> THEN << >>
    ELSE LET s == Head(shapes)
             rest == WithoutRefs(Tail(shapes), active, target)
         IN IF \/ active.live /\ s.id = active.obj.id
               \/ target.live /\ s.id = target.obj.id
            THEN rest ELSE << s >> \o rest

\* a replacement that leaves the operands in the list
KeepOperands(shapes, active, target) == shapes

\* what handleBooleanUnion and handleBooleanSubtract do with the points
\* BooleanOps returned: replace the operands by a shape made from parent
ReplaceOperands(B, parent, newPoints) ==
    LET S == B.st
        c == S.ui.boolCandidate
        shapes == Shapes(S.document)
        newShape == Spread(FromParent(parent.obj, newPoints, ShapeId(S.nextId + 1),
                                      S.clock + 1),
                           [selected |-> TRUE])
        newShapes == Append(WithoutRefs(shapes, c.active, c.target), newShape)
        gone == ShapeIds(shapes) \ ShapeIds(WithoutRefs(shapes, c.active, c.target))
        B1 == DetachAll(B, gone)
    IN [st |-> Dispatch([B1.st EXCEPT !.nextId = S.nextId + 1, !.clock = S.clock + 1],
                        [document |-> [shapes |-> newShapes],
                         ui |-> [selectedShapeId |-> newShape.id]],
                        FALSE),
        menu |-> B1.menu]

\* a handler that leaves the menu open when BooleanOps returned null
BooleanUnionKeepsMenu(B, result) ==
    IF ~Truthy(B.st.ui.boolCandidate) THEN B
    ELSE IF ClipPoints(result) = NULL THEN B
    ELSE LET done == ReplaceOperands(B, B.st.ui.boolCandidate.active, ClipPoints(result))
         IN [st |-> done.st, menu |-> HideBooleanMenu(done.menu)]

\* Input.handleBooleanUnion, result being what polygonClipping.union returns
\* for (target, active)
HandleBooleanUnion(B, result) ==
    IF ~Truthy(B.st.ui.boolCandidate) THEN B
    ELSE LET newPoints == ClipPoints(result)
             done == IF newPoints = NULL THEN B
                     ELSE ReplaceOperands(B, B.st.ui.boolCandidate.active, newPoints)
         IN [st |-> done.st, menu |-> HideBooleanMenu(done.menu)]

\* Input.handleBooleanSubtract, result being what polygonClipping.difference
\* returns for (target, active)
HandleBooleanSubtract(B, result) ==
    IF ~Truthy(B.st.ui.boolCandidate) THEN B
    ELSE LET newPoints == ClipPoints(result)
             done == IF newPoints = NULL THEN B
                     ELSE ReplaceOperands(B, B.st.ui.boolCandidate.target, newPoints)
         IN [st |-> done.st, menu |-> HideBooleanMenu(done.menu)]

\* DocumentOp.deleteSelectedShape
DeleteSelectedShape(B) ==
    IF ~Truthy(B.st.ui.selectedShapeId) THEN B
    ELSE LET id == B.st.ui.selectedShapeId
             B1 == DetachAll(B, {id})
         IN [st |-> Dispatch(B1.st,
                             [document |-> [shapes |-> WithoutId(Shapes(B1.st.document), id)],
                              ui |-> [selectedShapeId |-> NULL]],
                             FALSE),
             menu |-> B1.menu]

\* ------------------------------------------------------------------------
\* Boolean sessions: states the handlers produce when, after two triangles
\* over the same square were drawn, the user drags shapes, answers the
\* boolean menu, deletes and undoes
\* ------------------------------------------------------------------------
MaxPresses == 2
MaxMoves == 1
MaxBooleans == 1
MaxDeletes == 1

\* pointer positions (world, 1/U pixel): on an edge of the first triangle,
\* on an edge of the second, and away from both
DragCursors == { XY(20 * U, 0), XY(0, 20 * U), XY(70 * U, 0) }

\* whether the control key is held when the button goes down
CtrlKeys == { FALSE }

\* the operands of the boolean menu as polygon-clipping receives them
Operands == [target |-> ToPolygon(ui.boolCandidate.target.obj),
             active |-> ToPolygon(ui.boolCandidate.active.obj)]

\* the pointer moves to mouseWorld and the button goes down there
HandleBoolMouseDown(mouseWorld) ==
    /\ ui.mode = "SELECT"
    /\ ~Truthy(ui.dragging.type)
    /\ SelectedJoinery(Cur) = << >>
    /\ edits.presses < MaxPresses
    /\ \E k \in CtrlKeys :
          InstallAll(BoolMouseDown(BoolMouseMove(CurAll, mouseWorld), mouseWorld, k))
    /\ lastOp' = Op("mouseDown", RetNull)
    /\ edits' = [edits EXCEPT !.presses = @ + 1]
    /\ UNCHANGED <<clicks, zooms, switches, undos, projectInit, script, input>>

HandleDragMove(mouseWorld) ==
    /\ ui.mode = "SELECT"
    /\ Truthy(ui.dragging.type)
    /\ edits.moves < MaxMoves
    /\ InstallAll(BoolMouseMove(CurAll, mouseWorld))
    /\ lastOp' = Op("dragMove", RetNull)
    /\ edits' = [edits EXCEPT !.moves = @ + 1]
    /\ UNCHANGED <<clicks, zooms, switches, undos, projectInit, script, input>>

\* the button goes up: mouseup, then click
HandleRelease ==
    /\ ui.mode = "SELECT"
    /\ Truthy(ui.dragging.type)
    /\ LET up == BoolMouseUp(CurAll)
       IN InstallAll([st |-> HandleSelect(up.st, FALSE), menu |-> up.menu])
    /\ lastOp' = Op("release", RetNull)
    /\ UNCHANGED <<clicks, zooms, switches, undos, projectInit, script, edits, input>>

MenuTimeout ==
    /\ boolMenu.timeouts # << >>
    /\ InstallAll(ShowBooleanMenu(CurAll))
    /\ lastOp' = Op("menuTimeout", RetNull)
    /\ UNCHANGED <<clicks, zooms, switches, undos, projectInit, script, edits, input>>

\* the Union button of the menu
ClickBooleanUnion ==
    /\ ~boolMenu.hidden
    /\ edits.booleans < MaxBooleans
    /\ \E result \in ClipResults(Operands.target, Operands.active) :
          /\ InstallAll(HandleBooleanUnion(CurAll, result))
          /\ lastOp' = Op("union", IF Len(result) = 0 THEN RetNull ELSE RetShape(result))
    /\ edits' = [edits EXCEPT !.booleans = @ + 1]
    /\ UNCHANGED <<clicks, zooms, switches, undos, projectInit, script, input>>

\* the Subtract button of the menu
ClickBooleanSubtract ==
    /\ ~boolMenu.hidden
    /\ edits.booleans < MaxBooleans
    /\ \E result \in ClipResults(Operands.target, Operands.active) :
          /\ InstallAll(HandleBooleanSubtract(CurAll, result))
          /\ lastOp' = Op("subtract", IF Len(result) = 0 THEN RetNull ELSE RetShape(result))
    /\ edits' = [edits EXCEPT !.booleans = @ + 1]
    /\ UNCHANGED <<clicks, zooms, switches, undos, projectInit, script, input>>

\* the Delete button of the properties panel
ClickDelete ==
    /\ edits.deletes < MaxDeletes
    /\ Truthy(ui.selectedShapeId)
    /\ InstallAll(DeleteSelectedShape(CurAll))
    /\ lastOp' = Op("delete", RetNull)
    /\ edits' = [edits EXCEPT !.deletes = @ + 1]
    /\ UNCHANGED <<clicks, zooms, switches, undos, projectInit, script, input>>

BooleanInit ==
    /\ ui = ProjectLoaded(InitState).ui
    /\ document = ProjectLoaded(InitState).document
    /\ history = InitState.history
    /\ nextId = InitState.nextId
    /\ clock = InitState.clock
    /\ lastOp = [op |-> "projectInit", pre |-> "-", ret |-> RetNull]
    /\ clicks = 0
    /\ zooms = 0
    /\ switches = 0
    /\ undos = 0
    /\ projectInit = "done"
    /\ edits = NoEdits
    /\ boolMenu = NoMenu
    /\ input = NoInput
    /\ script = TwoTriangles

BooleanNext ==
    \/ Replay
    \/ script = << >> /\ \E m \in DragCursors : HandleBoolMouseDown(m)
    \/ script = << >> /\ \E m \in DragCursors : HandleDragMove(m)
    \/ script = << >> /\ HandleRelease
    \/ script = << >> /\ MenuTimeout
    \/ script = << >> /\ ClickBooleanUnion
    \/ script = << >> /\ ClickBooleanSubtract
    \/ script = << >> /\ ClickDelete
    \/ script = << >> /\ KeyUndo

SpecBoolean == BooleanInit /\ [][BooleanNext]_vars

\* ------------------------------------------------------------------------
\* Geometry.getFaceOrigin and the placement of joinery on a face
\* ------------------------------------------------------------------------

\* what a call that throws a TypeError yields
Thrown == [tag |-> "TypeError"]

\* parseInt(faceName.split('_')[1]) for a name that starts with 'EDGE_',
\* -1 for any other name
EdgeIndex(faceName) ==
    IF \E i \in 1..Len(EdgeNames) : EdgeNames[i] = faceName
    THEN (CHOOSE i \in 1..Len(EdgeNames) : EdgeNames[i] = faceName) - 1
    ELSE -1

\* a getFaceOrigin that does not mirror the BACK face
GetFaceOriginNoMirror(shape, faceName) ==
    IF EdgeIndex(faceName) >= 0 /\ EdgeIndex(faceName) >= Len(shape.points) THEN Thrown
    ELSE [origin |-> shape.points[1], xMult |-> 1]

\* Geometry.getFaceOrigin(shape, faceName, CONFIG.SCALE_PIXELS_PER_INCH):
\* origin in 1/U pixel
GetFaceOrigin(shape, faceName) ==
    LET centroid == CalculateCentroid(shape.points)
        idx == EdgeIndex(faceName)
    IN IF faceName \in {"", "FRONT"}
       THEN [origin |-> shape.points[1], xMult |-> 1]
       ELSE IF faceName = "BACK"
       THEN [origin |-> XY(2 * centroid.x - shape.points[1].x, shape.points[1].y),
             xMult |-> -1]
       ELSE IF idx >= 0
       THEN IF idx >= Len(shape.points) THEN Thrown
            ELSE LET l == shape.points[idx + 1].lengthToNext
                     len == IF l = NoLen THEN 0 ELSE l
                     thick == IF shape.thickness = 0 THEN InchScale ELSE shape.thickness
                 IN [origin |-> XY(centroid.x - RoundDiv(len * SCALE_PIXELS_PER_INCH * U,
                                                         2 * InchScale),
                                   centroid.y - RoundDiv(thick * SCALE_PIXELS_PER_INCH * U,
                                                         2 * InchScale)),
                     xMult |-> 1]
       ELSE [origin |-> shape.points[1], xMult |-> 1]

\* a drag that stores the x of a BACK item as it does for the other faces
LocalFromWorldUnmirrored(shape, item, newWorld) ==
    LET origin == GetFaceOrigin(shape, shape.activeFace).origin
    IN [item EXCEPT !.x = PixelsToInches(newWorld.x - origin.x),
                    !.y = PixelsToInches(newWorld.y - origin.y)]

\* DraggingOp.update (JOINERY): the item with the local coordinates it stores
\* for the world top-left newWorld
LocalFromWorld(shape, item, newWorld) ==
    LET activeFace == IF shape.activeFace = "" THEN "FRONT" ELSE shape.activeFace
        origin == GetFaceOrigin(shape, activeFace).origin
    IN [item EXCEPT
          !.x = IF activeFace = "BACK"
                THEN PixelsToInches(origin.x - (newWorld.x + InchesToPixels(item.w)))
                ELSE PixelsToInches(newWorld.x - origin.x),
          !.y = PixelsToInches(newWorld.y - origin.y)]

\* worldX, worldY of findItem in Input.handleMouseDown
HitBox(shape, item) ==
    LET f == GetFaceOrigin(shape, shape.activeFace)
    IN XY(f.origin.x + InchesToPixels(item.x) * f.xMult
             - (IF f.xMult = -1 THEN InchesToPixels(item.w) ELSE 0),
          f.origin.y + InchesToPixels(item.y))

\* worldX, worldY of drawBox in ViewController._drawOverlayLayer
DrawBox(shape, item) ==
    LET activeFace == IF shape.activeFace = "" THEN "FRONT" ELSE shape.activeFace
        f == GetFaceOrigin(shape, activeFace)
    IN XY(f.origin.x + InchesToPixels(item.x) * f.xMult
             - (IF f.xMult = -1 THEN InchesToPixels(item.w) ELSE 0),
          f.origin.y + InchesToPixels(item.y))

\* shapes with a face chosen: the polygons of SplitPolygons, one inch and a
\* quarter inch thick
FaceThicknesses == { InchScale, InchScale \div 4 }

FaceNamesOf(points) ==
    {"", "FRONT", "BACK", "TOP"} \cup { EdgeNames[i] : i \in 1..(Len(points) + 1) }

FaceShapes ==
    { [ShapeCreate(pts, "Board", ShapeId(1), 1) EXCEPT !.thickness = t, !.activeFace = f] :
         pts \in SplitPolygons, t \in FaceThicknesses, f \in {"FRONT"} }

\* world positions of an item's top-left corner (1/U pixel)
ItemCorners == { XY(0, 0), XY(15 * U, 5 * U), XY(-3 * U, 27 * U) }

\* the arguments of a call
FaceCall(shape, faceName, corner) ==
    [op |-> "getFaceOrigin", pre |-> "call",
     ret |-> [kind |-> "arguments", shape |-> [shape EXCEPT !.activeFace = faceName],
              corner |-> corner]]

FaceInit ==
    /\ ui = ProjectLoaded(InitState).ui
    /\ document = ProjectLoaded(InitState).document
    /\ history = InitState.history
    /\ nextId = InitState.nextId
    /\ clock = InitState.clock
    /\ clicks = 0
    /\ zooms = 0
    /\ switches = 0
    /\ undos = 0
    /\ projectInit = "done"
    /\ edits = NoEdits
    /\ boolMenu = NoMenu
    /\ input = NoInput
    /\ script = << >>
    /\ \E shape \in FaceShapes : \E f \in FaceNamesOf(shape.points) : \E c \in ItemCorners :
          lastOp = FaceCall(shape, f, c)

\* getFaceOrigin returns for the shape's active face; a tenon dragged to the
\* corner is stored, and hit-testing and rendering place the stored tenon
FaceReturn ==
    /\ lastOp.pre = "call"
    /\ LET shape == lastOp.ret.shape
           face == GetFaceOrigin(shape, shape.activeFace)
           item == TenonCreate(0, 0, 2 * InchScale, InchScale, shape.thickness, 0)
           stored == IF face = Thrown THEN NULL
                     ELSE LocalFromWorld(shape, item, lastOp.ret.corner)
       IN lastOp' = [op |-> "getFaceOrigin", pre |-> "return",
                     ret |-> [kind |-> "face", shape |-> shape,
                              corner |-> lastOp.ret.corner,
                              face |-> face,
                              stored |-> stored,
                              hit |-> IF face = Thrown THEN NULL ELSE HitBox(shape, stored),
                              drawn |-> IF face = Thrown THEN NULL
                                        ELSE DrawBox(shape, stored)]]
    /\ UNCHANGED <<ui, document, history, nextId, clock, clicks, zooms, switches, undos,
                   projectInit, script, edits, boolMenu, input>>

SpecFace == FaceInit /\ [][FaceReturn]_vars

\* ------------------------------------------------------------------------
\* Faces and joinery of the selected shape (JoineryOp.addCutout,
\* Input.cycleFace, DocumentOp.updateShapeName)
\* ------------------------------------------------------------------------

\* CutoutModel.create, lengths in 1/InchScale inch
CutoutCreate(x, y, w, h, depth) == [x |-> x, y |-> y, w |-> w, h |-> h, depth |-> depth]

\* an addCutout that puts the cutout next to the last one
AddCutoutBesideLast(S) ==
    LET idx == SelectedShapeIndex(S)
        shape == Shapes(S.document)[idx]
        face == IF shape.activeFace \in DOMAIN shape.faceData
                THEN shape.faceData[shape.activeFace] ELSE EmptyFace
        cutout == CutoutCreate(2 * InchScale * (Len(face.cutouts) + 1), 0, 2 * InchScale,
                               InchScale, shape.thickness)
        newShape == [shape EXCEPT !.faceData =
                        [f \in DOMAIN shape.faceData \cup {shape.activeFace} |->
                            IF f = shape.activeFace
                            THEN [face EXCEPT !.cutouts = Append(@, cutout)]
                            ELSE shape.faceData[f]]]
    IN IF idx = 0 THEN S
       ELSE Dispatch(S, [document |-> [shapes |->
                           ReplaceShape(Shapes(S.document), shape.id, newShape)]],
                     FALSE)

\* JoineryOp.addCutout
AddCutout(S) ==
    LET idx == SelectedShapeIndex(S)
        shape == Shapes(S.document)[idx]
        face == IF shape.activeFace \in DOMAIN shape.faceData
                THEN shape.faceData[shape.activeFace] ELSE EmptyFace
        thickness == IF shape.thickness = 0 THEN DEFAULT_THICKNESS * InchScale
                     ELSE shape.thickness
        cutout == CutoutCreate(2 * InchScale, 0, 2 * InchScale, InchScale, thickness)
        newShape == [shape EXCEPT !.faceData =
                        [f \in DOMAIN shape.faceData \cup {shape.activeFace} |->
                            IF f = shape.activeFace
                            THEN [face EXCEPT !.cutouts = Append(@, cutout)]
                            ELSE shape.faceData[f]]]
    IN IF idx = 0 THEN S
       ELSE Dispatch(S, [document |-> [shapes |->
                           ReplaceShape(Shapes(S.document), shape.id, newShape)]],
                     FALSE)

\* an assignment to a field of the shape object with this id: the list and
\* every reference to the object see the new value
MutateShape(B, id, newShape) ==
    LET alias(ref) == IF IsRef(ref) /\ ref.live /\ ref.obj.id = id
                      THEN [ref EXCEPT !.obj = newShape] ELSE ref
        pair(c) == IF "active" \in DOMAIN c
                   THEN [active |-> alias(c.active), target |-> alias(c.target)] ELSE c
        S == B.st
    IN [st |-> [S EXCEPT !.document = SetShapes(S.document,
                                         ReplaceShape(Shapes(S.document), id, newShape)),
                         !.ui.dragging.item = alias(S.ui.dragging.item),
                         !.ui.boolCandidate = pair(S.ui.boolCandidate)],
        menu |-> [B.menu EXCEPT !.timeouts =
                     [i \in 1..Len(B.menu.timeouts) |-> pair(B.menu.timeouts[i])]]]

\* the faces Input.cycleFace steps through
FaceCycle(shape) ==
    << "FRONT", "BACK" >> \o [i \in 1..Len(shape.points) |-> EdgeNames[i]]

\* Input.cycleFace(delta)
CycleFace(B, delta) ==
    LET idx == SelectedShapeIndex(B.st)
        shape == Shapes(B.st.document)[idx]
        faces == FaceCycle(shape)
        active == IF shape.activeFace = "" THEN "FRONT" ELSE shape.activeFace
        currIdx == IF \E i \in 1..Len(faces) : faces[i] = active
                   THEN (CHOOSE i \in 1..Len(faces) : faces[i] = active) - 1
                   ELSE 0
        nextIdx == (currIdx + delta + Len(faces)) % Len(faces)
    IN IF idx = 0 THEN B
       ELSE MutateShape(B, shape.id, [shape EXCEPT !.activeFace = faces[nextIdx + 1]])

\* DocumentOp.updateShapeName(name): the empty dispatch changes nothing
UpdateShapeName(B, name) ==
    LET idx == SelectedShapeIndex(B.st)
        shape == Shapes(B.st.document)[idx]
    IN IF idx = 0 THEN B
       ELSE MutateShape(B, shape.id, [shape EXCEPT !.name = name])

\* ------------------------------------------------------------------------
\* Joinery sessions: states the handlers produce when, after two triangles
\* were drawn, the user selects, steps through the faces and adds tenons
\* and cutouts
\* ------------------------------------------------------------------------
MaxJoinery == 3
MaxCycles == 2
MaxRenames == 1

\* what the user types into the name field
TypedNames == { [n |-> 0, base |-> "Leg"] }

\* pointer positions (world, 1/U pixel): on the first triangle, on the
\* second, and on neither
SelectCursors == { XY(20 * U, 0), XY(0, 20 * U), XY(70 * U, 70 * U) }

\* the face buttons step back and forth
FaceDeltas == { -1, 1 }

ClickCycleFace(delta) ==
    /\ edits.cycles < MaxCycles
    /\ InstallAll(CycleFace(CurAll, delta))
    /\ lastOp' = Op("cycleFace", RetNull)
    /\ edits' = [edits EXCEPT !.cycles = @ + 1]
    /\ UNCHANGED <<clicks, zooms, switches, undos, projectInit, script, input>>

\* Input.handlePropChange
HandlePropChange(name) ==
    /\ edits.renames < MaxRenames
    /\ InstallAll(UpdateShapeName(CurAll, name))
    /\ lastOp' = Op("rename", RetNull)
    /\ edits' = [edits EXCEPT !.renames = @ + 1]
    /\ UNCHANGED <<clicks, zooms, switches, undos, projectInit, script, input>>

ClickAddTenon ==
    /\ edits.joinery < MaxJoinery
    /\ Install(AddTenon(Cur))
    /\ lastOp' = Op("addTenon", RetNull)
    /\ edits' = [edits EXCEPT !.joinery = @ + 1]
    /\ UNCHANGED <<clicks, zooms, switches, undos, projectInit, script, boolMenu, input>>

ClickAddCutout ==
    /\ edits.joinery < MaxJoinery
    /\ Install(AddCutout(Cur))
    /\ lastOp' = Op("addCutout", RetNull)
    /\ edits' = [edits EXCEPT !.joinery = @ + 1]
    /\ UNCHANGED <<clicks, zooms, switches, undos, projectInit, script, boolMenu, input>>

JoineryInit ==
    /\ ui = ProjectLoaded(InitState).ui
    /\ document = ProjectLoaded(InitState).document
    /\ history = InitState.history
    /\ nextId = InitState.nextId
    /\ clock = InitState.clock
    /\ lastOp = [op |-> "projectInit", pre |-> "-", ret |-> RetNull]
    /\ clicks = 0
    /\ zooms = 0
    /\ switches = 0
    /\ undos = 0
    /\ projectInit = "done"
    /\ edits = NoEdits
    /\ boolMenu = NoMenu
    /\ input = NoInput
    /\ script = TwoTriangles

JoineryNext ==
    \/ Replay
    \/ script = << >> /\ \E m \in SelectCursors : HandleSelectAt(m)
    \/ script = << >> /\ \E d \in FaceDeltas : ClickCycleFace(d)
    \/ script = << >> /\ ClickAddTenon
    \/ script = << >> /\ ClickAddCutout

SpecJoinery == JoineryInit /\ [][JoineryNext]_vars

\* boolean sessions in which the user also uses the properties panel: the
\* name field and the face buttons
PanelNext ==
    \/ Replay
    \/ script = << >> /\ \E m \in DragCursors : HandleBoolMouseDown(m)
    \/ script = << >> /\ HandleRelease
    \/ script = << >> /\ MenuTimeout
    \/ script = << >> /\ \E n \in TypedNames : HandlePropChange(n)
    \/ script = << >> /\ \E d \in FaceDeltas : ClickCycleFace(d)

SpecPanel == BooleanInit /\ [][PanelNext]_vars

\* ------------------------------------------------------------------------
\* Panning and the click that follows it (Input.handleMouseDown,
\* handleMouseMove, handleMouseUp, handleKeyDown, handleKeyUp and
\* handleCanvasClick in view-controller.js; ViewportOp in viewport-op.js)
\* ------------------------------------------------------------------------

\* the program state, the boolean menu and Input together
CurInput == [st |-> Cur, menu |-> boolMenu, inp |-> input]

InstallInput(A) ==
    /\ Install(A.st)
    /\ boolMenu' = A.menu
    /\ input' = A.inp

\* ViewportOp.startPanning
StartPanning(S, pos) ==
    Dispatch(S, [ui |-> [view |-> [S.ui.view EXCEPT !.isPanning = TRUE,
                                                     !.panStart = pos]]], FALSE)

\* ViewportOp.updatePanning
UpdatePanning(S, pos) ==
    LET view == S.ui.view
        dx == pos.x - view.panStart.x
        dy == pos.y - view.panStart.y
    IN IF ~view.isPanning THEN S
       ELSE Dispatch(S, [ui |-> [view |-> [view EXCEPT
                                    !.pan = [x |-> view.pan.x + dx, y |-> view.pan.y + dy],
                                    !.panStart = pos]]], FALSE)

\* ViewportOp.stopPanning
StopPanning(S) ==
    Dispatch(S, [ui |-> [view |-> [S.ui.view EXCEPT !.isPanning = FALSE]]], FALSE)

\* the delay of the timeout that clears ignoreNextClick (100 ms), in ticks
TimerTicks == 2

\* Input.handleMouseDown: the middle button, or the left button while
\* Space is held, starts a pan; the left button in SELECT mode starts a drag
\* of the hovered shape (no joinery is under the pointer)
MouseDownAll(A, button, pos, ctrlKey) ==
    LET S == A.st
        menu == HideBooleanMenu(A.menu)
        inp == [A.inp EXCEPT !.mouseDownPos = pos, !.isPanningInteraction = FALSE,
                             !.held = button, !.panEnded = FALSE]
    IN IF button = 1 \/ (button = 0 /\ S.ui.isSpacePressed)
       THEN [st |-> StartPanning(S, pos), menu |-> menu,
             inp |-> [inp EXCEPT !.isPanningInteraction = TRUE]]
       ELSE LET B == BoolMouseDown([st |-> S, menu |-> A.menu],
                                   ScreenToWorld(pos, S.ui.view), ctrlKey)
            IN [st |-> B.st, menu |-> B.menu, inp |-> inp]

\* Input.handleMouseMove, 3D view closed
MouseMoveAll(A, pos) ==
    LET S == A.st
    IN IF S.ui.view.isPanning
       THEN [A EXCEPT !.st = UpdatePanning(S, pos)]
       ELSE IF ~Truthy(S.ui.dragging.type) /\ S.ui.mode = "DRAW"
       THEN [A EXCEPT !.st = MouseMove(S, pos)]
       ELSE LET B == BoolMouseMove([st |-> S, menu |-> A.menu],
                                   ScreenToWorld(pos, S.ui.view))
            IN [st |-> B.st, menu |-> B.menu, inp |-> A.inp]

\* dist > CONFIG.CLICK_TOLERANCE_SCREEN_PX, with
\* dist = Math.hypot(e.clientX - start.x, e.clientY - start.y)
BeyondTolerance(pos, start) ==
    Dist2(pos, start) > (CLICK_TOLERANCE_SCREEN_PX * U) * (CLICK_TOLERANCE_SCREEN_PX * U)

\* the tail of handleMouseUp that sets ignoreNextClick and never looks at
\* how far the pointer went
EndPanAlwaysIgnores(S, inp, pos) ==
    [st |-> StopPanning(S),
     inp |-> [inp EXCEPT !.ignoreNextClick = TRUE,
                         !.timers = Append(@, TimerTicks),
                         !.isPanningInteraction = FALSE]]

\* the tail of Input.handleMouseUp, `if (Input.isPanningInteraction) {...}`
EndPan(S, inp, pos) ==
    LET start == IF Truthy(inp.mouseDownPos) THEN inp.mouseDownPos
                 ELSE S.ui.view.panStart
        far == BeyondTolerance(pos, start)
    IN [st |-> StopPanning(S),
        inp |-> [inp EXCEPT !.ignoreNextClick = IF far THEN TRUE ELSE @,
                            !.timers = IF far THEN Append(@, TimerTicks) ELSE @,
                            !.isPanningInteraction = FALSE]]

\* Input.handleMouseUp; when the dragged item is undefined the handler
\* throws before it reaches the panning part
MouseUpAll(A, pos) ==
    LET S == A.st
        up == BoolMouseUp([st |-> S, menu |-> A.menu])
        threw == S.ui.dragging.type = SHAPE /\ ~IsRef(S.ui.dragging.item)
        inp == [A.inp EXCEPT !.held = NoButton,
                             !.panEnded = /\ A.inp.isPanningInteraction
                                          /\ BeyondTolerance(pos, A.inp.mouseDownPos)]
    IN IF threw \/ ~inp.isPanningInteraction
       THEN [st |-> up.st, menu |-> up.menu, inp |-> inp]
       ELSE LET ended == EndPan(up.st, inp, pos)
            IN [st |-> ended.st, menu |-> up.menu, inp |-> ended.inp]

\* what Input.handleCanvasClick did with the click
RetIgnored == [kind |-> "ignored"]

RetCalled(handler) == [kind |-> "called", handler |-> handler]

\* Input.handleCanvasClick that does not clear ignoreNextClick when it
\* drops a click
CanvasClickKeepsFlag(A, pos, ctrlKey) ==
    LET S == A.st
    IN IF A.inp.ignoreNextClick
       THEN [st |-> S, menu |-> A.menu, inp |-> [A.inp EXCEPT !.panEnded = FALSE],
             ret |-> RetIgnored]
       ELSE IF S.ui.mode = "DRAW"
       THEN [st |-> HandleDrawClick(S, ScreenToWorld(pos, S.ui.view)).st,
             menu |-> A.menu, inp |-> [A.inp EXCEPT !.panEnded = FALSE],
             ret |-> RetCalled("handleDrawClick")]
       ELSE [st |-> HandleSelect(S, ctrlKey), menu |-> A.menu,
             inp |-> [A.inp EXCEPT !.panEnded = FALSE],
             ret |-> RetCalled("handleSelect")]

\* Input.handleCanvasClick, left button
CanvasClickAll(A, pos, ctrlKey) ==
    LET S == A.st
    IN IF A.inp.ignoreNextClick
       THEN [st |-> S, menu |-> A.menu,
             inp |-> [A.inp EXCEPT !.ignoreNextClick = FALSE, !.panEnded = FALSE],
             ret |-> RetIgnored]
       ELSE IF S.ui.mode = "DRAW"
       THEN [st |-> HandleDrawClick(S, ScreenToWorld(pos, S.ui.view)).st,
             menu |-> A.menu, inp |-> [A.inp EXCEPT !.panEnded = FALSE],
             ret |-> RetCalled("handleDrawClick")]
       ELSE [st |-> HandleSelect(S, ctrlKey), menu |-> A.menu,
             inp |-> [A.inp EXCEPT !.panEnded = FALSE],
             ret |-> RetCalled("handleSelect")]

\* Input.handleKeyDown with the space bar, not a key repeat
KeyDownSpace(S) == [S EXCEPT !.ui.isSpacePressed = TRUE]

\* Input.handleKeyUp with the space bar
KeyUpSpace(S) ==
    LET S1 == [S EXCEPT !.ui.isSpacePressed = FALSE]
    IN IF S1.ui.view.isPanning
       THEN [StopPanning(S1) EXCEPT !.ui.view.isPanning = FALSE]
       ELSE S1

\* the callback of the timeout handleMouseUp started
ClearIgnoreNextClick(inp) ==
    [inp EXCEPT !.ignoreNextClick = FALSE, !.timers = Tail(@)]

\* ------------------------------------------------------------------------
\* Pan sessions: the user pans with the middle button or with Space and the
\* left button, clicks, and switches tools, while time passes
\* ------------------------------------------------------------------------

MaxPans == 2

MaxPanMoves == 1

MaxPanClicks == 2

\* screen positions of the pointer: where the button goes down, and where
\* it is released and clicks: more than the click tolerance away, and
\* within it
PanStarts == { XY(100 * U, 100 * U) }

PanEnds == { XY(150 * U, 150 * U), XY(105 * U, 100 * U) }

PanButtons == { 0, 1 }

PanMouseDown(button, pos) ==
    /\ input.held = NoButton
    /\ edits.pans < MaxPans
    /\ InstallInput(MouseDownAll(CurInput, button, pos, FALSE))
    /\ lastOp' = Op("mouseDown", RetNull)
    /\ edits' = [edits EXCEPT !.pans = @ + 1]
    /\ UNCHANGED <<clicks, zooms, switches, undos, projectInit, script>>

PanMouseMove(pos) ==
    /\ input.held # NoButton
    /\ edits.moves < MaxPanMoves
    /\ InstallInput(MouseMoveAll(CurInput, pos))
    /\ lastOp' = Op("mouseMove", RetNull)
    /\ edits' = [edits EXCEPT !.moves = @ + 1]
    /\ UNCHANGED <<clicks, zooms, switches, undos, projectInit, script>>

PanMouseUp(pos) ==
    /\ input.held # NoButton
    /\ InstallInput(MouseUpAll(CurInput, pos))
    /\ lastOp' = Op("mouseUp", RetNull)
    /\ UNCHANGED <<clicks, zooms, switches, undos, projectInit, script, edits>>

PanClick(pos) ==
    /\ input.held = NoButton
    /\ clicks < MaxPanClicks
    /\ LET after == CanvasClickAll(CurInput, pos, FALSE)
       IN /\ InstallInput(after)
          /\ lastOp' = Op("click", after.ret)
    /\ clicks' = clicks + 1
    /\ UNCHANGED <<zooms, switches, undos, projectInit, script, edits>>

KeySpaceDown ==
    /\ ~ui.isSpacePressed
    /\ Install(KeyDownSpace(Cur))
    /\ lastOp' = Op("spaceDown", RetNull)
    /\ UNCHANGED <<clicks, zooms, switches, undos, projectInit, script, edits, boolMenu, input>>

KeySpaceUp ==
    /\ ui.isSpacePressed
    /\ Install(KeyUpSpace(Cur))
    /\ lastOp' = Op("spaceUp", RetNull)
    /\ UNCHANGED <<clicks, zooms, switches, undos, projectInit, script, edits, boolMenu, input>>

\* one tick of time passes: no timeout is due
Tick ==
    /\ input.timers # << >>
    /\ \A i \in 1..Len(input.timers) : input.timers[i] > 0
    /\ input' = [input EXCEPT !.timers = [i \in 1..Len(@) |-> @[i] - 1],
                              !.panEnded = FALSE]
    /\ lastOp' = Op("tick", RetNull)
    /\ UNCHANGED <<ui, document, history, nextId, clock, clicks, zooms, switches, undos,
                   projectInit, script, edits, boolMenu>>

\* the oldest timeout is due and its callback runs
IgnoreTimeout ==
    /\ input.timers # << >>
    /\ Head(input.timers) = 0
    /\ input' = ClearIgnoreNextClick(input)
    /\ lastOp' = Op("ignoreTimeout", RetNull)
    /\ UNCHANGED <<ui, document, history, nextId, clock, clicks, zooms, switches, undos,
                   projectInit, script, edits, boolMenu>>

PanInit ==
    /\ ui = ProjectLoaded(InitState).ui
    /\ document = ProjectLoaded(InitState).document
    /\ history = InitState.history
    /\ nextId = InitState.nextId
    /\ clock = InitState.clock
    /\ lastOp = [op |-> "projectInit", pre |-> "-", ret |-> RetNull]
    /\ clicks = 0
    /\ zooms = 0
    /\ switches = 0
    /\ undos = 0
    /\ projectInit = "done"
    /\ edits = NoEdits
    /\ boolMenu = NoMenu
    /\ input = NoInput
    /\ script = << >>

PanNext ==
    \/ \E b \in PanButtons, m \in PanStarts : PanMouseDown(b, m)
    \/ \E m \in PanEnds : PanMouseMove(m)
    \/ \E m \in PanEnds : PanMouseUp(m)
    \/ \E m \in PanEnds : PanClick(m)
    \/ KeySpaceDown
    \/ KeySpaceUp
    \/ SwitchTool("SELECT")
    \/ Tick
    \/ IgnoreTimeout

SpecPan == PanInit /\ [][PanNext]_vars

\* time passes and due timeouts run
SpecPanLive == SpecPan /\ WF_vars(Tick) /\ WF_vars(IgnoreTimeout)

\* ------------------------------------------------------------------------
\* Drag sessions: the user presses the button on a shape, with or without
\* the control key, moves the pointer and releases
\* ------------------------------------------------------------------------

MaxDragMoves == 2

\* whether the control (or meta) key is held when the button goes down
CloneKeys == { FALSE, TRUE }

\* the action DraggingOp.update dispatches for a shape drag
DraggingAction(S) ==
    IF S.ui.dragging.type # SHAPE \/ ~IsRef(S.ui.dragging.item) THEN "none"
    ELSE IF S.ui.dragging.isCloneMode THEN "SHAPE_ADD"
    ELSE "SHAPE_DRAG_MOVE"

\* what the gesture started with: where the button went down, the points of
\* the shape under the pointer, and whether it is a clone drag
RetDown(S, at) ==
    [kind |-> "down", at |-> at,
     start |-> IF IsRef(S.ui.dragging.item) THEN S.ui.dragging.item.obj.points ELSE << >>,
     id |-> IF IsRef(S.ui.dragging.item) THEN S.ui.dragging.item.obj.id ELSE NULL,
     clone |-> S.ui.dragging.type = SHAPE /\ S.ui.dragging.isCloneMode]

\* the pointer moves to mouseWorld and the button goes down there
DragMouseDown(mouseWorld, ctrlKey) ==
    /\ ui.mode = "SELECT"
    /\ ~Truthy(ui.dragging.type)
    /\ SelectedJoinery(Cur) = << >>
    /\ edits.presses < MaxPresses
    /\ LET B == BoolMouseDown(BoolMouseMove(CurAll, mouseWorld), mouseWorld, ctrlKey)
       IN /\ InstallAll(B)
          /\ lastOp' = Op("mouseDown", RetDown(B.st, mouseWorld))
    /\ edits' = [edits EXCEPT !.presses = @ + 1]
    /\ UNCHANGED <<clicks, zooms, switches, undos, projectInit, script, input>>

\* the pointer moves to mouseWorld with the button down; lastOp keeps what
\* the gesture started with, the action dispatched and the cursor
DragUpdate(mouseWorld) ==
    /\ ui.mode = "SELECT"
    /\ Truthy(ui.dragging.type)
    /\ edits.moves < MaxDragMoves
    /\ InstallAll(BoolMouseMove(CurAll, mouseWorld))
    /\ lastOp' = Op("dragUpdate",
                    [kind |-> "drag", action |-> DraggingAction(Cur), cursor |-> mouseWorld,
                     at |-> lastOp.ret.at, start |-> lastOp.ret.start,
                     id |-> lastOp.ret.id, clone |-> lastOp.ret.clone])
    /\ edits' = [edits EXCEPT !.moves = @ + 1]
    /\ UNCHANGED <<clicks, zooms, switches, undos, projectInit, script, input>>

DragNext ==
    \/ Replay
    \/ script = << >> /\ \E m \in DragCursors, k \in CloneKeys : DragMouseDown(m, k)
    \/ script = << >> /\ \E m \in DragCursors : DragUpdate(m)
    \/ script = << >> /\ HandleRelease

SpecDrag == BooleanInit /\ [][DragNext]_vars

\* ------------------------------------------------------------------------
\* The thickness handle (Input.handleThicknessMouseDown in
\* view-controller.js, the THICKNESS branch of DraggingOp.update)
\* ------------------------------------------------------------------------

\* dragging.type of a thickness drag
THICKNESS == [tag |-> "THICKNESS"]

\* Input.handleThicknessMouseDown: screen is {clientX, clientY}
ThicknessMouseDown(S, screen) ==
    LET idx == SelectedShapeIndex(S)
        shape == Shapes(S.document)[idx]
    IN IF idx = 0 THEN S
       ELSE [S EXCEPT !.ui.dragging =
                [type |-> THICKNESS, item |-> Ref(shape, TRUE), startPos |-> screen,
                 initialVal |-> IF shape.thickness = 0 THEN DEFAULT_THICKNESS * InchScale
                                ELSE shape.thickness]]

\* the thickness update that adds the steps to the thickness the dragged
\* item has now
ThicknessUpdateAccumulates(B, mouseScreen) ==
    LET dragging == B.st.ui.dragging
        item == dragging.item.obj
        dx == mouseScreen.x - dragging.startPos.x
        steps == RoundDiv(dx, 10 * U)
        newVal == item.thickness + RoundDiv(steps * InchScale, 16)
        newThickness == Max(RoundDiv(InchScale, 8), newVal)
        inDoc == item.id \in ShapeIds(Shapes(B.st.document))
        B1 == DetachAll(B, IF inDoc THEN {item.id} ELSE {})
        S == B1.st
        newShape == [item EXCEPT !.thickness = newThickness,
                                 !.lastModified = S.clock + 1]
    IN [st |-> Dispatch([S EXCEPT !.clock = S.clock + 1],
                        [document |-> [shapes |-> ReplaceShape(Shapes(S.document),
                                                               item.id, newShape)],
                         ui |-> [dragging |-> [dragging EXCEPT
                                                 !.item = Ref(newShape, inDoc)]]],
                        FALSE),
        menu |-> B1.menu]

\* DraggingOp.update, `else if (dragging.type === 'THICKNESS')`: one step of
\* 1/16 inch for every 10 screen pixels from the start of the drag
\* (Math.round rounds halves up, as RoundDiv does), not below 1/8 inch;
\* lengths are kept to the nearest 1/InchScale inch
ThicknessUpdate(B, mouseScreen) ==
    LET dragging == B.st.ui.dragging
        item == dragging.item.obj
        dx == mouseScreen.x - dragging.startPos.x
        steps == RoundDiv(dx, 10 * U)
        newVal == dragging.initialVal + RoundDiv(steps * InchScale, 16)
        newThickness == Max(RoundDiv(InchScale, 8), newVal)
        inDoc == item.id \in ShapeIds(Shapes(B.st.document))
        B1 == DetachAll(B, IF inDoc THEN {item.id} ELSE {})
        S == B1.st
        newShape == [item EXCEPT !.thickness = newThickness,
                                 !.lastModified = S.clock + 1]
    IN [st |-> Dispatch([S EXCEPT !.clock = S.clock + 1],
                        [document |-> [shapes |-> ReplaceShape(Shapes(S.document),
                                                               item.id, newShape)],
                         ui |-> [dragging |-> [dragging EXCEPT
                                                 !.item = Ref(newShape, inDoc)]]],
                        FALSE),
        menu |-> B1.menu]

\* ------------------------------------------------------------------------
\* Thickness sessions: the user selects a shape and drags its thickness
\* handle left and right
\* ------------------------------------------------------------------------

MaxThicknessMoves == 2

\* where the button goes down on the handle (screen, 1/U pixel)
ThicknessStart == XY(100 * U, 50 * U)

\* how far from there the pointer goes, in screen pixels: less than half a
\* step, half a step and one and a half steps either way, and far enough to
\* the left to reach the minimum
ThicknessOffsets == { 4, 5, 15, -5, -15, -200 }

HandleThicknessMouseDown ==
    /\ ~Truthy(ui.dragging.type)
    /\ SelectedShapeIndex(Cur) # 0
    /\ edits.presses < MaxPresses
    /\ Install(ThicknessMouseDown(Cur, ThicknessStart))
    /\ lastOp' = Op("thicknessDown", RetNull)
    /\ edits' = [edits EXCEPT !.presses = @ + 1]
    /\ UNCHANGED <<clicks, zooms, switches, undos, projectInit, script, boolMenu, input>>

\* Input.handleMouseMove while the handle is dragged
ThicknessMove(mouseScreen) ==
    /\ ui.dragging.type = THICKNESS
    /\ edits.moves < MaxThicknessMoves
    /\ InstallAll(ThicknessUpdate(CurAll, mouseScreen))
    /\ lastOp' = Op("thicknessMove", [kind |-> "thickness", cursor |-> mouseScreen])
    /\ edits' = [edits EXCEPT !.moves = @ + 1]
    /\ UNCHANGED <<clicks, zooms, switches, undos, projectInit, script, input>>

\* Input.handleMouseUp ends the drag
ThicknessRelease ==
    /\ ui.dragging.type = THICKNESS
    /\ InstallAll(BoolMouseUp(CurAll))
    /\ lastOp' = Op("mouseup", RetNull)
    /\ UNCHANGED <<clicks, zooms, switches, undos, projectInit, script, edits, input>>

ThicknessNext ==
    \/ Replay
    \/ script = << >> /\ ~Truthy(ui.dragging.type)
                      /\ \E m \in SelectCursors : HandleSelectAt(m)
    \/ script = << >> /\ HandleThicknessMouseDown
    \/ script = << >> /\ \E d \in ThicknessOffsets :
                            ThicknessMove(XY(ThicknessStart.x + d * U, ThicknessStart.y))
    \/ script = << >> /\ ThicknessRelease

SpecThickness == BooleanInit /\ [][ThicknessNext]_vars

\* ------------------------------------------------------------------------
\* JoineryOp.removeJoinery and sessions that remove joinery
\* ------------------------------------------------------------------------

\* list.splice(index, 1): a negative index counts from the end
Splice1(list, index) ==
    LET start == IF index < 0 THEN Max(Len(list) + index, 0) ELSE Min(index, Len(list))
    IN SubSeq(list, 1, start) \o SubSeq(list, start + 2, Len(list))

\* the removal that takes the item after the one asked for
RemoveJoineryOffByOne(S, type, index) ==
    LET idx == SelectedShapeIndex(S)
        shape == Shapes(S.document)[idx]
        activeFace == IF shape.activeFace = "" THEN "FRONT" ELSE shape.activeFace
        face == shape.faceData[activeFace]
        newFace == IF type = "cutout"
                   THEN [face EXCEPT !.cutouts = Splice1(@, index + 1)]
                   ELSE [face EXCEPT !.tenons = Splice1(@, index + 1)]
        newShape == [shape EXCEPT !.faceData[activeFace] = newFace]
    IN IF idx = 0 THEN S
       ELSE IF activeFace \notin DOMAIN shape.faceData THEN S
       ELSE Dispatch(S, [document |-> [shapes |->
                           ReplaceShape(Shapes(S.document), shape.id, newShape)]],
                     FALSE)

\* JoineryOp.removeJoinery(type, index)
RemoveJoinery(S, type, index) ==
    LET idx == SelectedShapeIndex(S)
        shape == Shapes(S.document)[idx]
        activeFace == IF shape.activeFace = "" THEN "FRONT" ELSE shape.activeFace
        face == shape.faceData[activeFace]
        newFace == IF type = "cutout"
                   THEN [face EXCEPT !.cutouts = Splice1(@, index)]
                   ELSE [face EXCEPT !.tenons = Splice1(@, index)]
        newShape == [shape EXCEPT !.faceData[activeFace] = newFace]
    IN IF idx = 0 THEN S
       ELSE IF activeFace \notin DOMAIN shape.faceData THEN S
       ELSE Dispatch(S, [document |-> [shapes |->
                           ReplaceShape(Shapes(S.document), shape.id, newShape)]],
                     FALSE)

MaxRemoves == 1

\* the list a delete button belongs to, and its position (from 0), within
\* the list or beyond its end
JoineryTypes == { "tenon", "cutout" }

JoineryIndexes == 0..(MaxJoinery - 1)

\* a delete button of the joinery list; lastOp keeps what was asked for
ClickRemoveJoinery(type, index) ==
    /\ edits.deletes < MaxRemoves
    /\ Install(RemoveJoinery(Cur, type, index))
    /\ lastOp' = Op("removeJoinery", [kind |-> "remove", type |-> type, index |-> index])
    /\ edits' = [edits EXCEPT !.deletes = @ + 1]
    /\ UNCHANGED <<clicks, zooms, switches, undos, projectInit, script, boolMenu, input>>

RemoveNext ==
    \/ Replay
    \/ script = << >> /\ \E m \in SelectCursors : HandleSelectAt(m)
    \/ script = << >> /\ ClickCycleFace(1)
    \/ script = << >> /\ ClickAddTenon
    \/ script = << >> /\ ClickAddCutout
    \/ script = << >> /\ \E t \in JoineryTypes, i \in JoineryIndexes : ClickRemoveJoinery(t, i)

SpecRemove == JoineryInit /\ [][RemoveNext]_vars

\* ------------------------------------------------------------------------
\* Geometry.formatInches and Geometry.parseMeasurement
\* A text is a sequence of one-character strings; a length handed to
\* formatInches is in 1/SixtyFourths inch; a parsed number is num / den.
\* ------------------------------------------------------------------------
SixtyFourths == 64
FractionDen == 16

DigitChars == << "0", "1", "2", "3", "4", "5", "6", "7", "8", "9" >>

IsDigit(c) == \E i \in 1..Len(DigitChars) : DigitChars[i] = c

\* \s of the regular expressions
IsSpace(c) == c = " "

DigitVal(c) == (CHOOSE i \in 1..Len(DigitChars) : DigitChars[i] = c) - 1

\* `${n}` of a non-negative integer
RECURSIVE NumberText(_)
NumberText(n) ==
    IF n < 10 THEN << DigitChars[n + 1] >>
    ELSE Append(NumberText(n \div 10), DigitChars[(n % 10) + 1])

\* parseInt of a run of digits
RECURSIVE ParseInt(_)
ParseInt(ds) ==
    IF ds = << >> THEN 0
    ELSE 10 * ParseInt(SubSeq(ds, 1, Len(ds) - 1)) + DigitVal(ds[Len(ds)])

RECURSIVE Pow10(_)
Pow10(k) == IF k = 0 THEN 1 ELSE 10 * Pow10(k - 1)

\* String.prototype.trim
RECURSIVE Trim(_)
Trim(s) ==
    IF s = << >> THEN s
    ELSE IF IsSpace(s[1]) THEN Trim(Tail(s))
    ELSE IF IsSpace(s[Len(s)]) THEN Trim(SubSeq(s, 1, Len(s) - 1))
    ELSE s

\* JavaScript numbers that are not finite
INFINITY == [tag |-> "Infinity"]
NAN == [tag |-> "NaN"]

\* whole + num / den as JavaScript computes it
Quotient(whole, num, den) ==
    IF den = 0 THEN (IF num = 0 THEN NAN ELSE INFINITY)
    ELSE [tag |-> "number", num |-> whole * den + num, den |-> den]

IsFinite(v) == v.tag = "number"

\* a formatInches that reduces the fraction by its numerator
FormatInchesOverReduced(val) ==
    LET intInches == val \div SixtyFourths
        frac == val % SixtyFourths
        num == RoundDiv(frac * FractionDen, SixtyFourths)
    IN IF val < 1 THEN << "0", "\"" >>
       ELSE IF frac > 1 /\ num > 0
       THEN IF num = FractionDen THEN NumberText(intInches + 1) \o << "\"" >>
            ELSE NumberText(intInches) \o << " " >> \o NumberText(1)
                   \o << "/" >> \o NumberText(FractionDen \div num) \o << "\"" >>
       ELSE NumberText(intInches) \o << "\"" >>

\* Geometry.formatInches(val)
FormatInches(val) ==
    LET intInches == val \div SixtyFourths
        frac == val % SixtyFourths
        num == RoundDiv(frac * FractionDen, SixtyFourths)
        div == Gcd(num, FractionDen)
    IN IF val < 1 THEN << "0", "\"" >>
       ELSE IF frac > 1 /\ num > 0
       THEN IF num = FractionDen THEN NumberText(intInches + 1) \o << "\"" >>
            ELSE NumberText(intInches) \o << " " >> \o NumberText(num \div div)
                   \o << "/" >> \o NumberText(FractionDen \div div) \o << "\"" >>
       ELSE NumberText(intInches) \o << "\"" >>

\* the end of the longest run of characters with P that starts at s[i]
\* (i - 1 when s[i] is not one)
RunEnd(s, i, P(_)) ==
    CHOOSE j \in (i - 1)..Len(s) :
        /\ \A k \in i..j : P(s[k])
        /\ j = Len(s) \/ ~P(s[j + 1])

\* the "?$ that ends each pattern
StripQuote(s) ==
    IF s # << >> /\ s[Len(s)] = "\"" THEN SubSeq(s, 1, Len(s) - 1) ELSE s

CharAt(s, i) == IF i \in 1..Len(s) THEN s[i] ELSE ""

NoMatch == [tag |-> "no match"]

\* /^(\d+)'(?:\s*(\d+)?(?:\s*(\d+)\/(\d+))?)?"?$/ : the inches group takes
\* as many digits as still let the fraction match
MatchFeet(s) ==
    LET b == StripQuote(s)
        d1 == RunEnd(b, 1, IsDigit)
        s1 == RunEnd(b, d1 + 2, IsSpace)
        d2 == RunEnd(b, s1 + 1, IsDigit)
        s2 == RunEnd(b, d2 + 1, IsSpace)
        d3 == RunEnd(b, s2 + 1, IsDigit)
        d4 == RunEnd(b, d3 + 2, IsDigit)
        e4 == RunEnd(b, d2 + 2, IsDigit)
        ft == ParseInt(SubSeq(b, 1, d1))
    IN IF d1 < 1 \/ CharAt(b, d1 + 1) # "'" THEN NoMatch
       ELSE IF d2 = Len(b)
       THEN Quotient(ft * 12 + ParseInt(SubSeq(b, s1 + 1, d2)), 0, 1)
       ELSE IF d2 = s1 THEN NoMatch
       ELSE IF s2 > d2
       THEN IF d3 > s2 /\ CharAt(b, d3 + 1) = "/" /\ d4 >= d3 + 2 /\ d4 = Len(b)
            THEN Quotient(ft * 12 + ParseInt(SubSeq(b, s1 + 1, d2)),
                          ParseInt(SubSeq(b, s2 + 1, d3)), ParseInt(SubSeq(b, d3 + 2, d4)))
            ELSE NoMatch
       ELSE IF CharAt(b, d2 + 1) = "/" /\ e4 >= d2 + 2 /\ e4 = Len(b)
       THEN Quotient(ft * 12 + ParseInt(SubSeq(b, s1 + 1, d2 - 1)),
                     DigitVal(b[d2]), ParseInt(SubSeq(b, d2 + 2, e4)))
       ELSE NoMatch

\* /^(\d+)\s+(\d+)\/(\d+)"?$/
MatchMixed(s) ==
    LET b == StripQuote(s)
        d1 == RunEnd(b, 1, IsDigit)
        s1 == RunEnd(b, d1 + 1, IsSpace)
        d2 == RunEnd(b, s1 + 1, IsDigit)
        d3 == RunEnd(b, d2 + 2, IsDigit)
    IN IF /\ d1 >= 1 /\ s1 > d1 /\ d2 > s1
          /\ CharAt(b, d2 + 1) = "/" /\ d3 >= d2 + 2 /\ d3 = Len(b)
       THEN Quotient(ParseInt(SubSeq(b, 1, d1)),
                     ParseInt(SubSeq(b, s1 + 1, d2)), ParseInt(SubSeq(b, d2 + 2, d3)))
       ELSE NoMatch

\* /^(\d+)\/(\d+)"?$/
MatchFraction(s) ==
    LET b == StripQuote(s)
        d1 == RunEnd(b, 1, IsDigit)
        d2 == RunEnd(b, d1 + 2, IsDigit)
    IN IF d1 >= 1 /\ CharAt(b, d1 + 1) = "/" /\ d2 >= d1 + 2 /\ d2 = Len(b)
       THEN Quotient(0, ParseInt(SubSeq(b, 1, d1)), ParseInt(SubSeq(b, d1 + 2, d2)))
       ELSE NoMatch

\* /^(\d+(?:\.\d+)?)"?$/ and parseFloat of what matched
MatchPlain(s) ==
    LET b == StripQuote(s)
        d1 == RunEnd(b, 1, IsDigit)
        d2 == RunEnd(b, d1 + 2, IsDigit)
    IN IF d1 >= 1 /\ d1 = Len(b) THEN Quotient(ParseInt(b), 0, 1)
       ELSE IF d1 >= 1 /\ CharAt(b, d1 + 1) = "." /\ d2 >= d1 + 2 /\ d2 = Len(b)
       THEN Quotient(ParseInt(SubSeq(b, 1, d1)),
                     ParseInt(SubSeq(b, d1 + 2, d2)), Pow10(d2 - d1 - 1))
       ELSE NoMatch

\* Geometry.parseMeasurement(str)
ParseMeasurement(str) ==
    LET s == Trim(str)
    IN IF s = << >> THEN NULL
       ELSE IF MatchFeet(s) # NoMatch THEN MatchFeet(s)
       ELSE IF MatchMixed(s) # NoMatch THEN MatchMixed(s)
       ELSE IF MatchFraction(s) # NoMatch THEN MatchFraction(s)
       ELSE IF MatchPlain(s) # NoMatch THEN MatchPlain(s)
       ELSE NULL

\* the longest lengths formatted, in inches
MaxInches == 100

\* lengths of k / 16 inch
Sixteenths == { (SixtyFourths \div FractionDen) * k : k \in 0..(FractionDen * MaxInches) }

MeasureInit ==
    /\ ui = ProjectLoaded(InitState).ui
    /\ document = ProjectLoaded(InitState).document
    /\ history = InitState.history
    /\ nextId = InitState.nextId
    /\ clock = InitState.clock
    /\ clicks = 0
    /\ zooms = 0
    /\ switches = 0
    /\ undos = 0
    /\ projectInit = "done"
    /\ edits = NoEdits
    /\ boolMenu = NoMenu
    /\ input = NoInput
    /\ script = << >>
    /\ \E val \in Sixteenths :
          lastOp = [op |-> "formatInches", pre |-> "call",
                    ret |-> [kind |-> "arguments", val |-> val]]

\* a length is formatted and the text is parsed again
MeasureReturn ==
    /\ lastOp.pre = "call"
    /\ LET text == FormatInches(lastOp.ret.val)
       IN lastOp' = [op |-> "parseMeasurement", pre |-> "return",
                     ret |-> [kind |-> "measurement", val |-> lastOp.ret.val,
                              text |-> text, parsed |-> ParseMeasurement(text)]]
    /\ UNCHANGED <<ui, document, history, nextId, clock, clicks, zooms, switches, undos,
                   projectInit, script, edits, boolMenu, input>>

SpecMeasure == MeasureInit /\ [][MeasureReturn]_vars

\* ------------------------------------------------------------------------
\* Typed numbers: Input.handleInputApply and the dimension fields of the
\* joinery list
\* ------------------------------------------------------------------------
NEG_INFINITY == [tag |-> "-Infinity"]

\* a parsed number of inches in 1/InchScale inch; Infinity and NaN stay
ToInches(v) == IF IsFinite(v) THEN RoundDiv(v.num * InchScale, v.den) ELSE v

\* active + dir * (val * CONFIG.SCALE_PIXELS_PER_INCH) on one axis
OffsetBy(c, dir, val) ==
    IF IsFinite(val)
    THEN c + MulDiv(dir, RoundDiv(val.num * SCALE_PIXELS_PER_INCH * U, val.den), DirScale)
    ELSE IF val = NAN \/ dir = 0 THEN NAN
    ELSE IF dir > 0 THEN INFINITY ELSE NEG_INFINITY

\* Input.handleInputApply with DOM.input.value = text
HandleInputApply(S, text) ==
    LET val == ParseMeasurement(text)
        pts == S.ui.activeDrawing.points
        active == pts[Len(pts)]
        dir == Normalize(S.ui.activeDrawing.selectedDirection)
        endPt == [x |-> OffsetBy(active.x, dir.x, val),
                  y |-> OffsetBy(active.y, dir.y, val),
                  lengthToNext |-> NoLen]
    IN IF val = NULL \/ S.ui.drawState # "DRAWING_LINE" THEN [st |-> S, ret |-> val]
       ELSE IF ~Truthy(S.ui.activeDrawing.selectedDirection) \/ pts = << >>
       THEN [st |-> S, ret |-> Thrown]
       ELSE [st |-> [S EXCEPT
                       !.ui.activeDrawing.points =
                           Append([pts EXCEPT ![Len(pts)].lengthToNext = ToInches(val)],
                                  endPt),
                       !.ui.drawState = "START_SHAPE",
                       !.ui.activeDrawing.selectedDirection = NULL],
             ret |-> val]

\* the value of an <input type="number"> the text was typed into: the text
\* when it is a number, empty otherwise
NumberInputValue(text) ==
    LET d1 == RunEnd(text, 1, IsDigit)
        d2 == RunEnd(text, d1 + 2, IsDigit)
    IN IF text # << >> /\ d1 = Len(text) THEN text
       ELSE IF CharAt(text, d1 + 1) = "." /\ d2 >= d1 + 2 /\ d2 = Len(text) THEN text
       ELSE << >>

\* parseFloat: the longest prefix that is a number, NaN when there is none
ParseFloat(text) ==
    LET s == Trim(text)
        d1 == RunEnd(s, 1, IsDigit)
        d2 == RunEnd(s, d1 + 2, IsDigit)
        fraction == CharAt(s, d1 + 1) = "." /\ d2 >= d1 + 2
    IN IF fraction
       THEN Quotient(ParseInt(SubSeq(s, 1, d1)),
                     ParseInt(SubSeq(s, d1 + 2, d2)), Pow10(d2 - d1 - 1))
       ELSE IF d1 >= 1 THEN Quotient(ParseInt(SubSeq(s, 1, d1)), 0, 1)
       ELSE NAN

\* the fields createJoineryItemDOM adds for a tenon and for a cutout
JoineryFields(type) ==
    IF type = "tenon" THEN { "w", "h", "inset", "depth" } ELSE { "w", "h", "depth" }

\* the list of the selected shape's active face the panel shows
ShownJoinery(S, type) ==
    LET idx == SelectedShapeIndex(S)
        shape == Shapes(S.document)[idx]
        activeFace == IF shape.activeFace = "" THEN "FRONT" ELSE shape.activeFace
    IN IF idx = 0 \/ activeFace \notin DOMAIN shape.faceData THEN << >>
       ELSE IF type = "cutout" THEN shape.faceData[activeFace].cutouts
       ELSE shape.faceData[activeFace].tenons

\* onchange of a dimension field: data[f] = parseFloat(e.target.value),
\* written into the item of the shape in the document
JoineryFieldChange(B, type, index, f, text) ==
    LET S == B.st
        shape == Shapes(S.document)[SelectedShapeIndex(S)]
        activeFace == IF shape.activeFace = "" THEN "FRONT" ELSE shape.activeFace
        face == shape.faceData[activeFace]
        stored == ToInches(ParseFloat(NumberInputValue(text)))
        newFace == IF type = "cutout"
                   THEN [face EXCEPT !.cutouts[index + 1][f] = stored]
                   ELSE [face EXCEPT !.tenons[index + 1][f] = stored]
    IN IF index >= Len(ShownJoinery(S, type)) THEN B
       ELSE MutateShape(B, shape.id, [shape EXCEPT !.faceData[activeFace] = newFace])

\* what the user types
MaxChars == 3
MaxFieldChars == 1
MeasureChars == { "0", "1", "/", "'", " ", "\"", ".", "a" }

Texts(n) == UNION { [1..k -> MeasureChars] : k \in 0..n }

\* the session ends with the first typed number that is applied
MaxTyped == 1

\* Enter in the length input
InputApply(text) ==
    /\ edits.renames < MaxTyped
    /\ edits.joinery = 0
    /\ LET r == HandleInputApply(Cur, text)
       IN /\ Install(r.st)
          /\ lastOp' = Op("inputApply", [kind |-> "parsed", text |-> text, value |-> r.ret])
    /\ edits' = [edits EXCEPT !.renames = @ + 1]
    /\ UNCHANGED <<clicks, zooms, switches, undos, projectInit, script, boolMenu, input>>

\* a dimension field of the joinery list loses the focus after an edit
FieldChange(type, index, f, text) ==
    /\ edits.renames < MaxTyped
    /\ index < Len(ShownJoinery(Cur, type))
    /\ InstallAll(JoineryFieldChange(CurAll, type, index, f, text))
    /\ lastOp' = Op("fieldChange",
                    [kind |-> "field", type |-> type, index |-> index, field |-> f,
                     text |-> text,
                     value |-> ParseFloat(NumberInputValue(text))])
    /\ edits' = [edits EXCEPT !.renames = @ + 1]
    /\ UNCHANGED <<clicks, zooms, switches, undos, projectInit, script, input>>

\* the session draws one side and picks a direction, or draws two parts
EntryInit ==
    /\ ui = ProjectLoaded(InitState).ui
    /\ document = ProjectLoaded(InitState).document
    /\ history = InitState.history
    /\ nextId = InitState.nextId
    /\ clock = InitState.clock
    /\ lastOp = [op |-> "projectInit", pre |-> "-", ret |-> RetNull]
    /\ clicks = 0
    /\ zooms = 0
    /\ switches = 0
    /\ undos = 0
    /\ projectInit = "done"
    /\ edits = NoEdits
    /\ boolMenu = NoMenu
    /\ input = NoInput
    /\ \/ script = OneSide
       \/ script = TwoTriangles

\* the length input is used before joinery is added
EntryNext ==
    \/ Replay
    \/ script = << >> /\ edits.renames = 0 /\ \E m \in SelectCursors : HandleSelectAt(m)
    \/ script = << >> /\ edits.renames = 0 /\ ClickAddTenon
    \/ script = << >> /\ edits.renames = 0 /\ ClickAddCutout
    \/ script = << >> /\ \E text \in Texts(MaxChars) : InputApply(text)
    \/ script = << >> /\ \E t \in JoineryTypes, i \in JoineryIndexes :
                           \E f \in JoineryFields(t), text \in Texts(MaxFieldChars) :
                              FieldChange(t, i, f, text)

SpecEntry == EntryInit /\ [][EntryNext]_vars

\* ------------------------------------------------------------------------
\* Sessions that change the active face and then the outline: the face
\* buttons, the JSON panel, drags with and without the control key, and the
\* boolean menu
\* ------------------------------------------------------------------------
MaxFaceImports == 2

\* the square without its last corner
ImportTriangle == SubSeq(ImportPoints, 1, 3)

\* the outlines the user types into the JSON panel
FacePolygons == { ImportPoints, ImportTriangle }

\* where the button goes down, and where the pointer is dragged to
FacePresses == { XY(20 * U, 0) }
FaceMoves == { XY(70 * U, 0) }

\* the Apply button of the JSON panel, the points of the exported text
\* having been replaced
ImportOutline(points) ==
    /\ edits.imports < MaxFaceImports
    /\ SelectedShapeIndex(Cur) # 0
    /\ Install(JSONImport(Cur, EditedJSON(Shapes(document)[SelectedShapeIndex(Cur)], points)))
    /\ lastOp' = Op("jsonImport", RetNull)
    /\ edits' = [edits EXCEPT !.imports = @ + 1]
    /\ UNCHANGED <<clicks, zooms, switches, undos, projectInit, script, boolMenu, input>>

\* Geometry.getFaceOrigin, which handleMouseDown calls for the selected
\* shape, returns
PressReturns ==
    IF SelectedShapeIndex(Cur) = 0 THEN TRUE
    ELSE LET shape == Shapes(document)[SelectedShapeIndex(Cur)]
         IN GetFaceOrigin(shape, shape.activeFace) # Thrown

FacesNext ==
    \/ Replay
    \/ script = << >> /\ PressReturns /\ \E m \in FacePresses, k \in CloneKeys :
                                            DragMouseDown(m, k)
    \/ script = << >> /\ \E m \in FaceMoves : HandleDragMove(m)
    \/ script = << >> /\ HandleRelease
    \/ script = << >> /\ MenuTimeout
    \/ script = << >> /\ ClickBooleanUnion
    \/ script = << >> /\ ClickBooleanSubtract
    \/ script = << >> /\ \E d \in FaceDeltas : ClickCycleFace(d)
    \/ script = << >> /\ \E points \in FacePolygons : ImportOutline(points)

SpecFaces == BooleanInit /\ [][FacesNext]_vars

\* ------------------------------------------------------------------------
\* Long drawing sessions: more persisted dispatches than the history holds,
\* and undo with and without snapshots left
\* ------------------------------------------------------------------------
MaxHistoryClicks == 6
MaxHistoryUndos == 2

\* where the pointer moves to between clicks
HistoryMoves == { [x |-> 60 * U, y |-> 40 * U] }

\* a click of the session
HistoryClick(mouseScreen) ==
    /\ ui.mode = "DRAW"
    /\ clicks < MaxHistoryClicks
    /\ Install(CanvasClick(Cur, mouseScreen).st)
    /\ lastOp' = Op("click", CanvasClick(Cur, mouseScreen).ret)
    /\ clicks' = clicks + 1
    /\ UNCHANGED <<zooms, switches, undos, projectInit, script, edits, boolMenu, input>>

\* Input.handleKeyDown with Ctrl+Z, whatever the history holds
HistoryUndo ==
    /\ undos < MaxHistoryUndos
    /\ InstallAll(UndoAll(CurAll))
    /\ lastOp' = Op("undo", RetNull)
    /\ undos' = undos + 1
    /\ UNCHANGED <<clicks, zooms, switches, projectInit, script, edits, input>>

HistoryInit ==
    /\ ui = ProjectLoaded(InitState).ui
    /\ document = ProjectLoaded(InitState).document
    /\ history = InitState.history
    /\ nextId = InitState.nextId
    /\ clock = InitState.clock
    /\ lastOp = [op |-> "projectInit", pre |-> "-", ret |-> RetNull]
    /\ clicks = 0
    /\ zooms = 0
    /\ switches = 0
    /\ undos = 0
    /\ projectInit = "done"
    /\ edits = NoEdits
    /\ boolMenu = NoMenu
    /\ input = NoInput
    /\ script = << >>

HistoryNext ==
    \/ \E c \in Cursors : HistoryClick(c)
    \/ \E c \in HistoryMoves : HandleMouseMove(c)
    \/ KeyEscape
    \/ HistoryUndo

SpecHistory == HistoryInit /\ [][HistoryNext]_vars

\* ------------------------------------------------------------------------
\* Sessions with a click that no pointer move precedes
\* ------------------------------------------------------------------------

\* document changes after which ui.hoveredShapeId is not recomputed
DocumentChanges == {"delete", "union", "subtract", "undo"}

\* the button goes down and up where the pointer already is, right after a
\* document change: mousedown, mouseup and click with no mousemove, so
\* handleSelect reads the hoveredShapeId of the last move
ClickInPlace ==
    /\ ui.mode = "SELECT"
    /\ ~Truthy(ui.dragging.type)
    /\ SelectedJoinery(Cur) = << >>
    /\ lastOp.op \in DocumentChanges
    /\ edits.presses < MaxPresses
    /\ "lastPos" \in DOMAIN ui.dragging
    /\ LET down == BoolMouseDown(CurAll, ui.dragging.lastPos, FALSE)
           up == BoolMouseUp(down)
       IN InstallAll([st |-> HandleSelect(up.st, FALSE), menu |-> up.menu])
    /\ lastOp' = Op("clickInPlace", RetNull)
    /\ edits' = [edits EXCEPT !.presses = @ + 1]
    /\ UNCHANGED <<clicks, zooms, switches, undos, projectInit, script, input>>

SelectNext ==
    \/ Replay
    \/ script = << >> /\ \E m \in DragCursors : HandleBoolMouseDown(m)
    \/ script = << >> /\ \E m \in DragCursors : HandleDragMove(m)
    \/ script = << >> /\ HandleRelease
    \/ script = << >> /\ MenuTimeout
    \/ script = << >> /\ ClickBooleanUnion
    \/ script = << >> /\ ClickBooleanSubtract
    \/ script = << >> /\ ClickDelete
    \/ script = << >> /\ KeyUndo
    \/ script = << >> /\ ClickInPlace

SpecSelect == BooleanInit /\ [][SelectNext]_vars

\* ------------------------------------------------------------------------
\* Dragging a tenon or a cutout (Input.handleMouseDown, DraggingOp.update)
\* ------------------------------------------------------------------------
JOINERY == [tag |-> "JOINERY"]

\* list.find(item => the box of the item holds mouseWorld): its index, or 0
RECURSIVE FindItem(_, _, _, _)
FindItem(shape, list, mouseWorld, i) ==
    IF i > Len(list) THEN 0
    ELSE LET box == HitBox(shape, list[i])
         IN IF /\ mouseWorld.x >= box.x
               /\ mouseWorld.x <= box.x + InchesToPixels(list[i].w)
               /\ mouseWorld.y >= box.y
               /\ mouseWorld.y <= box.y + InchesToPixels(list[i].h)
            THEN i
            ELSE FindItem(shape, list, mouseWorld, i + 1)

\* a reference to the joinery object at idx of its list; ofShape says that
\* the object is an element of the lists of dragging.shape
ItemRef(item, idx, ofShape) == [obj |-> item, idx |-> idx, ofShape |-> ofShape]

\* Input.handleMouseDown with the left button in SELECT mode, space not
\* held: a joinery drag when the pointer is on a tenon or a cutout of the
\* selected shape's face, else a shape drag
JoineryMouseDown(B, mouseWorld, ctrlKey) ==
    LET S == B.st
        shape == Shapes(S.document)[SelectedShapeIndex(S)]
        activeFace == IF shape.activeFace = "" THEN "FRONT" ELSE shape.activeFace
        face == IF activeFace \in DOMAIN shape.faceData
                THEN shape.faceData[activeFace] ELSE EmptyFace
        foundCutout == FindItem(shape, face.cutouts, mouseWorld, 1)
        foundTenon == FindItem(shape, face.tenons, mouseWorld, 1)
        type == IF foundCutout # 0 THEN "cutout" ELSE "tenon"
        idx == IF foundCutout # 0 THEN foundCutout ELSE foundTenon
        item == IF foundCutout # 0 THEN face.cutouts[idx] ELSE face.tenons[idx]
        box == HitBox(shape, item)
        dragging == [type |-> JOINERY, item |-> ItemRef(item, idx, TRUE),
                     listType |-> type, shape |-> shape,
                     offset |-> XY(mouseWorld.x - box.x, mouseWorld.y - box.y)]
    IN IF S.ui.mode = "SELECT" /\ SelectedJoinery(S) # << >>
          /\ (foundCutout # 0 \/ foundTenon # 0)
       THEN [st |-> [S EXCEPT !.ui.dragging = dragging],
             menu |-> HideBooleanMenu(B.menu)]
       ELSE BoolMouseDown(B, mouseWorld, ctrlKey)

\* the loop over the edges of the outline from edge i on: the closest point
\* to the centre of the tenon and whether its edge is nearer to vertical
RECURSIVE BestSnap(_, _, _, _)
BestSnap(pts, center, i, best) ==
    IF i >= Len(pts) THEN best
    ELSE LET p1 == pts[i + 1]
             p2 == pts[((i + 1) % Len(pts)) + 1]
             closest == ClosestPointOnSegment(center, p1, p2)
             dist == Dist(center, closest)
         IN BestSnap(pts, center, i + 1,
                     IF best = NULL \/ dist < best.minDist
                     THEN [minDist |-> dist, closest |-> closest,
                           isVert |-> Abs(p1.x - p2.x) < Abs(p1.y - p2.y)]
                     ELSE best)

TenonSnapDistance == 50
CutoutSnapDistance == 30
GuideHalfLength == 20

HorizontalGuide(centroid) ==
    [start |-> XY(centroid.x - GuideHalfLength * U, centroid.y),
     end |-> XY(centroid.x + GuideHalfLength * U, centroid.y)]

VerticalGuide(centroid) ==
    [start |-> XY(centroid.x, centroid.y - GuideHalfLength * U),
     end |-> XY(centroid.x, centroid.y + GuideHalfLength * U)]

\* the snapping of a tenon whose closest outline point is best: the world
\* top-left it ends at and the guide
SnapTenonTo(best, centroid, w, h, world) ==
    LET halfW == RoundDiv(w, 2)
        halfH == RoundDiv(h, 2)
        snapX == IF Abs((world.x + w) - best.closest.x) < Abs(world.x - best.closest.x)
                 THEN best.closest.x - w ELSE best.closest.x
        snapY == IF Abs((world.y + h) - best.closest.y) < Abs(world.y - best.closest.y)
                 THEN best.closest.y - h ELSE best.closest.y
    IN IF best = NULL \/ best.minDist >= TenonSnapDistance * U
       THEN [x |-> world.x, y |-> world.y, guide |-> NULL]
       ELSE IF best.isVert
       THEN IF Abs((world.y + halfH) - centroid.y) < TenonSnapDistance * U
            THEN [x |-> snapX, y |-> centroid.y - halfH, guide |-> HorizontalGuide(centroid)]
            ELSE [x |-> snapX, y |-> world.y, guide |-> NULL]
       ELSE IF Abs((world.x + halfW) - centroid.x) < TenonSnapDistance * U
            THEN [x |-> centroid.x - halfW, y |-> snapY, guide |-> VerticalGuide(centroid)]
            ELSE [x |-> world.x, y |-> snapY, guide |-> NULL]

\* the snapping of a tenon to the closest edge of the outline
SnapTenon(shape, item, world) ==
    SnapTenonTo(BestSnap(shape.points,
                         XY(world.x + RoundDiv(InchesToPixels(item.w), 2),
                            world.y + RoundDiv(InchesToPixels(item.h), 2)), 0, NULL),
                CalculateCentroid(shape.points),
                InchesToPixels(item.w), InchesToPixels(item.h), world)

\* the snapping of a cutout to the axes through centroid
SnapCutoutTo(centroid, halfW, halfH, world) ==
    LET onX == Abs((world.x + halfW) - centroid.x) < CutoutSnapDistance * U
        onY == Abs((world.y + halfH) - centroid.y) < CutoutSnapDistance * U
    IN [x |-> IF onX THEN centroid.x - halfW ELSE world.x,
        y |-> IF onY THEN centroid.y - halfH ELSE world.y,
        guide |-> IF onY THEN HorizontalGuide(centroid)
                  ELSE IF onX THEN VerticalGuide(centroid) ELSE NULL]

SnapCutout(shape, item, world) ==
    SnapCutoutTo(CalculateCentroid(shape.points),
                 RoundDiv(InchesToPixels(item.w), 2),
                 RoundDiv(InchesToPixels(item.h), 2), world)

\* newWorldX, newWorldY and alignmentGuide of DraggingOp.update (JOINERY)
\* for the pointer at mouseWorld
SnappedWorld(dragging, mouseWorld) ==
    LET world == XY(mouseWorld.x - dragging.offset.x, mouseWorld.y - dragging.offset.y)
    IN IF dragging.listType = "tenon"
       THEN SnapTenon(dragging.shape, dragging.item.obj, world)
       ELSE SnapCutout(dragging.shape, dragging.item.obj, world)

\* the item with the local coordinates the update computes for mouseWorld
DraggedTo(dragging, mouseWorld) ==
    LET snapped == SnappedWorld(dragging, mouseWorld)
    IN LocalFromWorld(dragging.shape, dragging.item.obj, XY(snapped.x, snapped.y))

\* oldList.indexOf(item), counting from 1, 0 for -1: the object is found
\* only in the lists of the shape object it belongs to
IndexOfItem(dragging) == IF dragging.item.ofShape THEN dragging.item.idx ELSE 0

\* the end of DraggingOp.update (JOINERY) for the item moved and the
\* alignment guide: the clone of dragging.shape with the item at idx
\* replaced is put in the document, and dragging.item becomes the item of
\* the clone; nothing is dispatched when indexOf is -1 (idx = 0)
DispatchJoineryMove(S, idx, moved, guide) ==
    LET dragging == S.ui.dragging
        shape == dragging.shape
        activeFace == IF shape.activeFace = "" THEN "FRONT" ELSE shape.activeFace
        newShape == [StructuredClone(shape) EXCEPT
                        !.lastModified = S.clock + 1,
                        !.faceData[activeFace] =
                            IF dragging.listType = "tenon"
                            THEN [@ EXCEPT !.tenons[idx] = moved]
                            ELSE [@ EXCEPT !.cutouts[idx] = moved]]
    IN IF idx = 0 THEN [S EXCEPT !.clock = S.clock + 1]
       ELSE Dispatch([S EXCEPT !.clock = S.clock + 1],
                     [document |-> [shapes |->
                         ReplaceShape(Shapes(S.document), shape.id, newShape)],
                      ui |-> [activeDrawing |->
                                 [S.ui.activeDrawing EXCEPT !.alignmentGuide = guide],
                              dragging |->
                                 [dragging EXCEPT !.item = ItemRef(moved, idx, FALSE)]]],
                     FALSE)

\* DraggingOp.update with dragging.type JOINERY
UpdateJoinery(S, mouseWorld) ==
    DispatchJoineryMove(S, IndexOfItem(S.ui.dragging),
                        DraggedTo(S.ui.dragging, mouseWorld),
                        SnappedWorld(S.ui.dragging, mouseWorld).guide)

\* the action the update dispatches
JoineryAction(S) ==
    IF S.ui.dragging.type # JOINERY THEN "none"
    ELSE IF IndexOfItem(S.ui.dragging) = 0 THEN "none"
    ELSE "JOINERY_DRAG_MOVE"

\* Input.handleMouseMove in SELECT mode, 3D view closed, not panning
JoineryMouseMove(B, mouseWorld) ==
    IF B.st.ui.dragging.type = JOINERY
    THEN [st |-> UpdateJoinery(B.st, mouseWorld), menu |-> B.menu]
    ELSE BoolMouseMove(B, mouseWorld)

\* the tenons and cutouts a session adds, the presses and the pointer moves
\* of its drags
MaxDragJoinery == 2
MaxDragPresses == 2
MaxJoineryMoves == 3

\* where the button goes down: on the first tenon, on the first cutout
JoineryPresses == { XY(5 * U, 5 * U), XY(30 * U, 5 * U) }

\* where the pointer moves with the button down
JoineryMoves == { XY(15 * U, 25 * U), XY(32 * U, 12 * U) }

\* what an update of the gesture was given and what it dispatched
RetUpdate(S, at) == [kind |-> "update", at |-> at, action |-> JoineryAction(S)]

DragAddTenon ==
    /\ edits.joinery < MaxDragJoinery
    /\ ~Truthy(ui.dragging.type)
    /\ ClickAddTenon

DragAddCutout ==
    /\ edits.joinery < MaxDragJoinery
    /\ ~Truthy(ui.dragging.type)
    /\ ClickAddCutout

\* the pointer moves to mouseWorld and the button goes down there
HandleJoineryMouseDown(mouseWorld) ==
    /\ ui.mode = "SELECT"
    /\ ~Truthy(ui.dragging.type)
    /\ edits.presses < MaxDragPresses
    /\ InstallAll(JoineryMouseDown(BoolMouseMove(CurAll, mouseWorld), mouseWorld, FALSE))
    /\ lastOp' = Op("joineryDown", RetNull)
    /\ edits' = [edits EXCEPT !.presses = @ + 1]
    /\ UNCHANGED <<clicks, zooms, switches, undos, projectInit, script, input>>

\* the pointer moves to mouseWorld with the button down
HandleJoineryMove(mouseWorld) ==
    /\ ui.mode = "SELECT"
    /\ Truthy(ui.dragging.type)
    /\ edits.moves < MaxJoineryMoves
    /\ InstallAll(JoineryMouseMove(CurAll, mouseWorld))
    /\ lastOp' = Op("joineryMove", RetUpdate(Cur, mouseWorld))
    /\ edits' = [edits EXCEPT !.moves = @ + 1]
    /\ UNCHANGED <<clicks, zooms, switches, undos, projectInit, script, input>>

JoineryDragNext ==
    \/ Replay
    \/ script = << >> /\ DragAddTenon
    \/ script = << >> /\ DragAddCutout
    \/ script = << >> /\ \E m \in JoineryPresses : HandleJoineryMouseDown(m)
    \/ script = << >> /\ \E m \in JoineryMoves : HandleJoineryMove(m)
    \/ script = << >> /\ HandleRelease

SpecJoineryDrag == JoineryInit /\ [][JoineryDragNext]_vars

\* ------------------------------------------------------------------------
\* Properties of the drawing state machine
\* ------------------------------------------------------------------------

\* the world point a click at screen position c commits
Clicked(c) == ScreenToWorld(c, ui.view)

\* C1: a draw click in IDLE at any point p leaves drawState = START_SHAPE and
\* activeDrawing.points = [p], whatever points were there before; the
\* document is unchanged and handleDrawClick returns null.
C1_IdleClickStartsShape ==
    [][\A c \in Cursors :
          (ui.drawState = "IDLE" /\ HandleCanvasClick(c)) =>
             /\ ui'.drawState = "START_SHAPE"
             /\ ui'.activeDrawing.points = << Clicked(c) >>
             /\ document' = document
             /\ lastOp'.ret = RetNull]_vars

\* the first click of a session has been handled, and it started a shape
C1_Witness ==
    /\ clicks = 1
    /\ lastOp.op = "click"
    /\ ui.drawState = "START_SHAPE"
    /\ Len(ui.activeDrawing.points) = 1

\* C2: a draw click in START_SHAPE while a compass direction is highlighted
\* leaves drawState = DRAWING_LINE, selectedDirection = the direction that
\* was highlighted and highlightedDirection = null; activeDrawing.points and
\* the document are unchanged.
C2_HighlightedClickSetsDirection ==
    [][\A c \in Cursors :
          (/\ ui.drawState = "START_SHAPE"
           /\ Truthy(ui.activeDrawing.highlightedDirection)
           /\ HandleCanvasClick(c)) =>
             /\ ui'.drawState = "DRAWING_LINE"
             /\ ui'.activeDrawing.selectedDirection = ui.activeDrawing.highlightedDirection
             /\ ui'.activeDrawing.highlightedDirection = NULL
             /\ ui'.activeDrawing.points = ui.activeDrawing.points
             /\ document' = document]_vars

\* a direction has just been committed by a click and the highlight is gone
C2_Witness ==
    /\ lastOp.op = "click"
    /\ ui.drawState = "DRAWING_LINE"
    /\ Truthy(ui.activeDrawing.selectedDirection)
    /\ ui.activeDrawing.highlightedDirection = NULL
    /\ ui.activeDrawing.tempLine = NULL
    /\ Len(ui.activeDrawing.points) = 1

\* C3: a draw click in START_SHAPE with no direction highlighted dispatches
\* DRAW_RESET and then DRAW_START within the one click: whatever the number
\* of points committed so far, the state afterwards is START_SHAPE with
\* activeDrawing.points = [clicked point]; the two snapshots the click
\* leaves on the undo history are the state before the click and the state
\* between the two dispatches, which is IDLE with the clicked point, so the
\* reset came first.
C3_NoHighlightClickRestarts ==
    [][\A c \in Cursors :
          (/\ ui.drawState = "START_SHAPE"
           /\ ~Truthy(ui.activeDrawing.highlightedDirection)
           /\ HandleCanvasClick(c)) =>
             LET n == Len(history')
             IN /\ ui'.drawState = "START_SHAPE"
                /\ ui'.activeDrawing.points = << Clicked(c) >>
                /\ n >= 2
                /\ history'[n - 1] = Snapshot(Cur)
                /\ history'[n].ui.drawState = "IDLE"
                /\ history'[n].ui.activeDrawing.points = << Clicked(c) >>
                /\ document' = document
                /\ lastOp'.ret = RetNull]_vars

\* a click has just discarded a sketch of two or more points and restarted
C3_Witness ==
    /\ lastOp.op = "click"
    /\ ui.drawState = "START_SHAPE"
    /\ Len(ui.activeDrawing.points) = 1
    /\ Len(history) >= 2
    /\ history[Len(history)].ui.drawState = "IDLE"
    /\ history[Len(history) - 1].ui.drawState = "START_SHAPE"
    /\ Len(history[Len(history) - 1].ui.activeDrawing.points) >= 2

\* C4: a draw click in DRAWING_LINE with no snapTarget appends the pending
\* endpoint tempLine.end as the new last point, sets the previous last
\* point's lengthToNext to distance(previous, endpoint) /
\* SCALE_PIXELS_PER_INCH, leaves drawState = START_SHAPE with tempLine,
\* alignmentGuide, selectedDirection and snapTarget null, keeps the earlier
\* points in order and leaves the document unchanged.
C4_LineClickAppendsEndpoint ==
    [][\A c \in Cursors :
          (/\ ui.drawState = "DRAWING_LINE"
           /\ ~Truthy(ui.activeDrawing.snapTarget)
           /\ HandleCanvasClick(c)) =>
             LET ad == ui.activeDrawing
                 n == Len(ad.points)
                 after == ui'.activeDrawing
             IN /\ Truthy(ad.tempLine)
                /\ ui'.drawState = "START_SHAPE"
                /\ Len(after.points) = n + 1
                /\ after.points[n + 1] = ad.tempLine.end
                /\ after.points[n] =
                      [ad.points[n] EXCEPT
                          !.lengthToNext = LengthInches(Dist(ad.points[n], ad.tempLine.end))]
                /\ \A i \in 1..(n - 1) : after.points[i] = ad.points[i]
                /\ after.tempLine = NULL
                /\ after.alignmentGuide = NULL
                /\ after.selectedDirection = NULL
                /\ after.snapTarget = NULL
                /\ document' = document
                /\ lastOp'.ret = RetNull]_vars

\* the coordinates of a list of points, in order
Coordinates(points) == [i \in 1..Len(points) |-> [x |-> points[i].x, y |-> points[i].y]]

\* C5: a draw click in DRAWING_LINE with snapTarget set appends exactly one
\* new Shape with closed = true to the document's shapes, its points being
\* the activeDrawing points in the same order with the start point not
\* repeated; that Shape is returned and selected, drawState becomes IDLE,
\* ui.mode becomes SELECT, activeDrawing.points is empty and tempLine,
\* alignmentGuide and snapTarget are null; the shapes that were there before
\* are unchanged.
C5_ClosingClickAddsShape ==
    [][\A c \in Cursors :
          (/\ ui.drawState = "DRAWING_LINE"
           /\ Truthy(ui.activeDrawing.snapTarget)
           /\ HandleCanvasClick(c)) =>
             LET old == Shapes(document)
                 new == Shapes(document')
                 n == Len(old)
             IN /\ Len(new) = n + 1
                /\ \A i \in 1..n : new[i] = old[i]
                /\ new[n + 1].closed = TRUE
                /\ Coordinates(new[n + 1].points) = Coordinates(ui.activeDrawing.points)
                /\ lastOp'.ret = RetShape(new[n + 1])
                /\ ui'.selectedShapeId = new[n + 1].id
                /\ ui'.drawState = "IDLE"
                /\ ui'.mode = "SELECT"
                /\ ui'.activeDrawing.points = << >>
                /\ ui'.activeDrawing.tempLine = NULL
                /\ ui'.activeDrawing.alignmentGuide = NULL
                /\ ui'.activeDrawing.snapTarget = NULL]_vars

\* C6: every Shape in the document that the drawing state machine added
\* has at least 3 points, after any sequence of draw clicks, previews,
\* cancels, tool switches and undos.
C6_ShapesHaveThreePoints ==
    \A i \in 1..Len(document.projects) :
       \A j \in 1..Len(document.projects[i].shapes) :
          Len(document.projects[i].shapes[j].points) >= 3

\* pointer positions at which the closure rule is evaluated: the cursors,
\* and two more just inside and exactly on the snap radius around (40,40)
SnapProbes ==
    Cursors \cup { [x |-> 54 * U, y |-> 40 * U], [x |-> 55 * U, y |-> 40 * U] }

\* C7: in DRAWING_LINE, updatePreview sets snapTarget to the start point if
\* and only if there are at least 3 points and the pointer is less than
\* SNAP_RADIUS_SCREEN_PX screen pixels from the start point's screen
\* position; then tempLine.end is the start point and alignmentGuide is
\* null; otherwise, and always with fewer than 3 points, snapTarget is null
\* after the preview. Stated of updatePreview at every pointer position of
\* SnapProbes in every reachable state, and of every pointer-move step
\* taken.
C7_ClosureSnapRule ==
    /\ [](\A c \in SnapProbes :
             ui.drawState = "DRAWING_LINE" =>
                LET ad == ui.activeDrawing
                    after == UpdatePreview(ad, ui.drawState, ui.view, Clicked(c), c)
                    near == Dist2(c, WorldToScreen(ad.points[1], ui.view))
                               < (SNAP_RADIUS_SCREEN_PX * U) * (SNAP_RADIUS_SCREEN_PX * U)
                IN IF Len(ad.points) >= 3 /\ near
                   THEN /\ after.snapTarget = ad.points[1]
                        /\ after.tempLine.end = ad.points[1]
                        /\ after.alignmentGuide = NULL
                   ELSE after.snapTarget = NULL)
    /\ [][\A c \in Cursors :
             (ui.drawState = "DRAWING_LINE" /\ HandleMouseMove(c)) =>
                LET pts == ui.activeDrawing.points
                    near == Dist2(c, WorldToScreen(pts[1], ui.view))
                               < (SNAP_RADIUS_SCREEN_PX * U) * (SNAP_RADIUS_SCREEN_PX * U)
                IN IF Len(pts) >= 3 /\ near
                   THEN /\ ui'.activeDrawing.snapTarget = pts[1]
                        /\ ui'.activeDrawing.tempLine.end = pts[1]
                        /\ ui'.activeDrawing.alignmentGuide = NULL
                   ELSE ui'.activeDrawing.snapTarget = NULL]_vars

\* a pointer-move has just snapped a sketch of three or more points shut
C7_Witness ==
    /\ lastOp.op = "preview"
    /\ ui.drawState = "DRAWING_LINE"
    /\ Len(ui.activeDrawing.points) >= 3
    /\ ui.activeDrawing.snapTarget = ui.activeDrawing.points[1]
    /\ ui.activeDrawing.tempLine.end = ui.activeDrawing.points[1]
    /\ ui.activeDrawing.alignmentGuide = NULL

\* C8: DrawingOp.cancel, from any draw state and any activeDrawing, leaves
\* drawState = IDLE, activeDrawing.points empty and tempLine,
\* alignmentGuide, selectedDirection, snapTarget and highlightedDirection
\* null, and leaves the document as it was. Stated of cancel applied to
\* every reachable state, and of every Escape step taken in DRAW mode.
C8_CancelResets ==
    /\ [](LET S == Cancel(Cur)
          IN /\ S.ui.drawState = "IDLE"
             /\ S.ui.activeDrawing.points = << >>
             /\ S.ui.activeDrawing.tempLine = NULL
             /\ S.ui.activeDrawing.alignmentGuide = NULL
             /\ S.ui.activeDrawing.selectedDirection = NULL
             /\ S.ui.activeDrawing.snapTarget = NULL
             /\ S.ui.activeDrawing.highlightedDirection = NULL
             /\ S.document = document)
    /\ [][(ui.mode = "DRAW" /\ KeyEscape) =>
             /\ ui'.drawState = "IDLE"
             /\ ui'.activeDrawing.points = << >>
             /\ ui'.activeDrawing.tempLine = NULL
             /\ ui'.activeDrawing.alignmentGuide = NULL
             /\ ui'.activeDrawing.selectedDirection = NULL
             /\ ui'.activeDrawing.snapTarget = NULL
             /\ ui'.activeDrawing.highlightedDirection = NULL
             /\ document' = document]_vars

\* Escape has just cancelled a sketch that was in DRAWING_LINE
C8_Witness ==
    /\ lastOp.op = "escape"
    /\ lastOp.pre = "DRAWING_LINE"
    /\ ui.mode = "DRAW"
    /\ ui.drawState = "IDLE"
    /\ ui.activeDrawing = EmptyDrawing

\* C9: switching the tool away from DRAW, from any draw state, leaves
\* drawState = IDLE and every activeDrawing field reset: points empty and
\* tempLine, selectedDirection, highlightedDirection, snapTarget and
\* alignmentGuide null (or undefined: no value of the abandoned sketch).
C9_SwitchToolClearsDrawing ==
    [][\A m \in Modes \ {"DRAW"} :
          (ui.mode = "DRAW" /\ SwitchTool(m)) =>
             /\ ui'.drawState = "IDLE"
             /\ ui'.activeDrawing.points = << >>
             /\ ~Truthy(ui'.activeDrawing.tempLine)
             /\ ~Truthy(ui'.activeDrawing.selectedDirection)
             /\ ~Truthy(ui'.activeDrawing.highlightedDirection)
             /\ ~Truthy(ui'.activeDrawing.snapTarget)
             /\ ~Truthy(ui'.activeDrawing.alignmentGuide)]_vars

\* C10: updatePreview commits nothing and is idempotent: it never changes
\* drawState, activeDrawing.points, selectedDirection or the document;
\* called twice with the same pointer position it leaves the activeDrawing
\* (tempLine, snapTarget, alignmentGuide and the highlight) it leaves when
\* called once; and called for one position and then another it leaves
\* what it leaves when called for the second alone. Stated of updatePreview
\* at every pair of positions of Cursors in every reachable state, and of
\* every pointer-move step taken.
C10_PreviewIdempotent ==
    /\ [](\A c2 \in Cursors :
             LET once == UpdatePreview(ui.activeDrawing, ui.drawState, ui.view,
                                       Clicked(c2), c2)
             IN /\ once.points = ui.activeDrawing.points
                /\ once.selectedDirection = ui.activeDrawing.selectedDirection
                /\ UpdatePreview(once, ui.drawState, ui.view, Clicked(c2), c2) = once
                /\ \A c1 \in Cursors :
                      UpdatePreview(UpdatePreview(ui.activeDrawing, ui.drawState, ui.view,
                                                  Clicked(c1), c1),
                                    ui.drawState, ui.view, Clicked(c2), c2) = once)
    /\ [][\A c \in Cursors :
             HandleMouseMove(c) =>
                /\ ui'.drawState = ui.drawState
                /\ ui'.activeDrawing.points = ui.activeDrawing.points
                /\ ui'.activeDrawing.selectedDirection = ui.activeDrawing.selectedDirection
                /\ document' = document
                /\ history' = history]_vars

\* a pointer-move has just previewed the third side of a sketch, aligned
\* with the start point
C10_Witness ==
    /\ lastOp.op = "preview"
    /\ ui.drawState = "DRAWING_LINE"
    /\ Len(ui.activeDrawing.points) >= 3
    /\ Truthy(ui.activeDrawing.tempLine)
    /\ Truthy(ui.activeDrawing.alignmentGuide)
    /\ ui.activeDrawing.snapTarget = NULL

\* the snap tiers as increments in 1/8 inch and weights in tenths:
\* 1, 0.5, 0.25, 0.125 inch with weights 1.0, 0.8, 0.6, 0.4
TierIncrements == << 8, 4, 2, 1 >>
TierWeights == << 10, 8, 6, 4 >>

\* the multiples of tier k (1/(8U) pixel) on either side of a length of len8
TierMarks(k, len8) ==
    LET inc == TierIncrements[k] * SCALE_PIXELS_PER_INCH * U
    IN { m * inc : m \in (len8 \div inc)..(len8 \div inc + 1) }

\* the nearest multiple of tier k, the upper one when two are equally near
NearestMark(k, len8) ==
    CHOOSE v \in TierMarks(k, len8) :
        \A w \in TierMarks(k, len8) :
            \/ Abs(len8 - v) < Abs(len8 - w)
            \/ Abs(len8 - v) = Abs(len8 - w) /\ v >= w

\* the on-screen distance to the nearest multiple of tier k is strictly below
\* min(SNAP_RADIUS_SCREEN_PX * weight, 0.4 * increment * SCALE * zoom); both
\* sides are multiplied by 8 * U * ZoomScale * 10
TierQualifies(k, len8, zoom) ==
    LET inc == TierIncrements[k] * SCALE_PIXELS_PER_INCH * U
        onScreen == Abs(len8 - NearestMark(k, len8)) * zoom * 10
    IN /\ onScreen < SNAP_RADIUS_SCREEN_PX * TierWeights[k] * 8 * U * ZoomScale
       /\ onScreen < 4 * inc * zoom

\* the length (1/U pixel) the tier rule gives a projected length of len
TierLength(len, zoom) ==
    LET qualifying == { k \in 1..4 : TierQualifies(k, 8 * len, zoom) }
    IN IF qualifying = {} THEN len
       ELSE LET first == CHOOSE k \in qualifying : \A j \in qualifying : k <= j
            IN NearestMark(first, 8 * len) \div 8

\* the projected length of the pointer at screen position c
ProjectedLength(c) ==
    LET pts == ui.activeDrawing.points
        activePt == pts[Len(pts)]
        dir == Normalize(ui.activeDrawing.selectedDirection)
        cursor == Clicked(c)
    IN Max(0, Dot([x |-> cursor.x - activePt.x, y |-> cursor.y - activePt.y], dir))

\* C11: a preview in DRAWING_LINE that neither closes the loop nor aligns
\* with the first point ends the pending line at the anchor plus the
\* direction times the tier length of max(0, (cursor - anchor) . dir): the
\* nearest multiple of the first of the tiers 1, 0.5, 0.25, 0.125 inch
\* (weights 1.0, 0.8, 0.6, 0.4) whose on-screen distance to that multiple is
\* strictly below min(SNAP_RADIUS_SCREEN_PX * weight, 0.4 * increment * SCALE
\* * zoom), and the projected length itself when no tier qualifies; at zoom 1
\* a length of 100.5 px becomes 100 px
C11_TierSnapping ==
    /\ TierLength((201 * U) \div 2, ZoomScale) = 100 * U
    /\ \A c \in SweepCursors :
          LET after == MouseMove(Cur, c).ui.activeDrawing
          IN ( /\ ui.mode = "DRAW"
               /\ ui.drawState = "DRAWING_LINE"
               /\ Truthy(ui.activeDrawing.selectedDirection)
               /\ after.snapTarget = NULL
               /\ after.alignmentGuide = NULL )
             => after.tempLine.end =
                   PointAlong(ui.activeDrawing.points[Len(ui.activeDrawing.points)],
                              Normalize(ui.activeDrawing.selectedDirection),
                              TierLength(ProjectedLength(c), ui.view.zoom))

\* at CONFIG.ZOOM.MAX the pointer is 3.2 px east of the anchor, where no
\* tier qualifies, and the pending line ends under the pointer
C11_Witness ==
    /\ lastOp.op = "preview"
    /\ ui.drawState = "DRAWING_LINE"
    /\ ui.view.zoom = 20 * ZoomScale
    /\ ui.activeDrawing.snapTarget = NULL
    /\ ui.activeDrawing.alignmentGuide = NULL
    /\ Truthy(ui.activeDrawing.tempLine)
    /\ ui.activeDrawing.tempLine.end.y = 0
    /\ 8 * ui.activeDrawing.tempLine.end.x \notin TierMarks(4, 8 * ui.activeDrawing.tempLine.end.x)

\* ------------------------------------------------------------------------
\* Properties of the shape model and the slice tool
\* ------------------------------------------------------------------------

\* every point of the shape caches the distance to the next point around
\* the polygon, in inches
CachedLengthsRight(shape) ==
    \A i \in 1..Len(shape.points) :
        shape.points[i].lengthToNext =
            LengthInches(Dist(shape.points[i],
                              shape.points[(i % Len(shape.points)) + 1]))

\* C12: whenever an operation has returned control, every closed shape of
\* the document has, for every index i, points[i].lengthToNext equal to the
\* distance from points[i] to points[(i+1) mod n] divided by
\* SCALE_PIXELS_PER_INCH, the two shapes of one slice included.
C12_SideLengthCache ==
    \A i \in 1..Len(Shapes(document)) :
        Shapes(document)[i].closed => CachedLengthsRight(Shapes(document)[i])

\* the face names a shape with these points must have
FaceNames(points) == {"FRONT", "BACK"} \cup { EdgeNames[i] : i \in 1..Len(points) }

\* C13: whenever an operation has returned control, every shape of the
\* document has the faceData entries FRONT and BACK and exactly one entry
\* EDGE_i for each i in 0..points.length-1, no EDGE entry missing and none
\* extra, also after a slice or a JSON import changed the number of points.
C13_FaceDataKeys ==
    \A i \in 1..Len(Shapes(document)) :
        DOMAIN Shapes(document)[i].faceData = FaceNames(Shapes(document)[i].points)

\* point lists a shape of the document may be rebuilt from
ParentProbes == { ImportPoints } \cup { Shapes(document)[i].points : i \in 1..Len(Shapes(document)) }

\* what fromParent promises about the child it makes of parent
DerivedFrom(child, parent, points) ==
    /\ child.id = ShapeId(nextId + 1)
    /\ \A i \in 1..Len(Shapes(document)) : Shapes(document)[i].id # child.id
    /\ child.name = parent.name
    /\ child.thickness = parent.thickness
    /\ child.activeFace = "FRONT"
    /\ child.faceData.FRONT = parent.faceData.FRONT
    /\ child.faceData.BACK = parent.faceData.BACK
    /\ DOMAIN child.faceData = FaceNames(points)
    /\ \A i \in 1..Len(points) : child.faceData[EdgeNames[i]] = EmptyFace

ActiveSplit ==
    LET sl == ui.slice2D
        idx == FindShape(Cur, sl.activeShapeId)
    IN IF ~Truthy(sl.activeCut) \/ ~Truthy(sl.activeShapeId) \/ idx = 0 THEN NULL
       ELSE SplitPolygon(Shapes(document)[idx].points, sl.activeCut.start, sl.activeCut.end)

\* the ids of the shapes
IdsOf(shapes) == { shapes[i].id : i \in 1..Len(shapes) }

\* C15: a slice commit whose splitPolygon result is two loops removes the
\* original shape and appends exactly two new shapes derived from it by
\* fromParent, one per loop, with distinct fresh ids, so that the number of
\* shapes grows by one; every other shape is unchanged and keeps its place,
\* selectedShapeId becomes null and the slice state is reset (activeCut,
\* anchor and activeShapeId null, isAdjusting false).
C15_SliceCommit ==
    [][(HandleSliceClick /\ ActiveSplit # NULL) =>
          LET old == Shapes(document)
              new == Shapes(document')
              n == Len(old)
              idx == FindShape(Cur, ui.slice2D.activeShapeId)
              parent == old[idx]
              others == [i \in 1..(n - 1) |-> IF i < idx THEN old[i] ELSE old[i + 1]]
          IN /\ Len(new) = n + 1
             /\ parent.id \notin IdsOf(new)
             /\ SubSeq(new, 1, n - 1) = others
             /\ new[n].id # new[n + 1].id
             /\ {new[n].id, new[n + 1].id} \cap IdsOf(old) = {}
             /\ \A k \in 1..2 :
                   /\ Coordinates(new[n - 1 + k].points) = Coordinates(ActiveSplit[k])
                   /\ new[n - 1 + k].name = parent.name
                   /\ new[n - 1 + k].thickness = parent.thickness
                   /\ new[n - 1 + k].faceData.FRONT = parent.faceData.FRONT
                   /\ new[n - 1 + k].faceData.BACK = parent.faceData.BACK
                   /\ DOMAIN new[n - 1 + k].faceData = FaceNames(ActiveSplit[k])
                   /\ \A i \in 1..Len(ActiveSplit[k]) :
                         new[n - 1 + k].faceData[EdgeNames[i]] = EmptyFace
             /\ ui'.selectedShapeId = NULL
             /\ ui'.slice2D.activeCut = NULL
             /\ ui'.slice2D.anchor = NULL
             /\ ui'.slice2D.activeShapeId = NULL
             /\ ui'.slice2D.isAdjusting = FALSE]_vars

\* a mitre cut of the first triangle was committed while the angle was
\* still being adjusted: the second triangle kept its place
C15_Witness ==
    /\ lastOp.op = "sliceClick"
    /\ edits.slices = 1
    /\ Len(Shapes(document)) = 3
    /\ Coordinates(Shapes(document)[1].points) = << XY(0, 0), XY(0, 40 * U), XY(40 * U, 40 * U) >>
    /\ \A k \in 2..3 :
          LET cut == Coordinates(Shapes(document)[k].points)
          IN {XY(20 * U, 0), XY(40 * U, 20 * U)} \subseteq { cut[i] : i \in 1..Len(cut) }
    /\ ui.selectedShapeId = NULL
    /\ ui.slice2D.activeCut = NULL

\* count points of the polygon, cyclically from index from (counted from 0)
Cyclic(pts, from, count) == [j \in 1..count |-> pts[((from + j - 1) % Len(pts)) + 1]]

\* twice the area the shoelace formula gives
TwiceArea(pts) ==
    LET cross(i) == pts[i].x * pts[(i % Len(pts)) + 1].y - pts[(i % Len(pts)) + 1].x * pts[i].y
        sum[i \in 0..Len(pts)] == IF i = 0 THEN 0 ELSE sum[i - 1] + cross(i)
    IN Abs(sum[Len(pts)])

\* the index (from 0) of the first edge of the polygon that holds p, or -1
EdgeOf(pts, p) ==
    LET on(i) == Touches(p, ClosestPointOnSegment(p, pts[i + 1], pts[((i + 1) % Len(pts)) + 1]))
    IN IF \E i \in 0..(Len(pts) - 1) : on(i)
       THEN CHOOSE i \in 0..(Len(pts) - 1) : on(i) /\ \A k \in 0..(i - 1) : ~on(k)
       ELSE -1

\* what splitPolygon promises of the loops it returns for the cut a-b of
\* the polygon
Partitions(pts, a, b, loops) ==
    LET n == Len(pts)
        idx1 == EdgeOf(pts, a)
        idx2 == EdgeOf(pts, b)
        countA == (idx2 - idx1 + n) % n
        countB == (idx1 - idx2 + n) % n
        indexA == { (idx1 + j) % n : j \in 1..countA }
        indexB == { (idx2 + j) % n : j \in 1..countB }
    IN (idx1 # -1 /\ idx2 # -1 /\ idx1 # idx2) =>
          /\ loops # NULL
          /\ Len(loops) = 2
          /\ loops[1] = << a >> \o Cyclic(pts, idx1 + 1, countA) \o << b >>
          /\ loops[2] = << b >> \o Cyclic(pts, idx2 + 1, countB) \o << a >>
          /\ indexA \cup indexB = 0..(n - 1)
          /\ indexA \cap indexB = {}
          /\ Len(loops[1]) + Len(loops[2]) = n + 4

\* C16: for every polygon of n points and cut points matched to two
\* different edges idx1 and idx2, splitPolygon returns two loops, loop A =
\* [cutStart, points idx1+1 .. idx2 cyclically, cutEnd] and loop B = [cutEnd,
\* points idx2+1 .. idx1 cyclically, cutStart]; every original vertex is in
\* exactly one loop, both loops hold both cut points and the sizes sum to
\* n + 4.  The square (0,0),(10,0),(10,10),(0,10) cut by (5,0)-(5,10) gives
\* two loops with the two corners of their side and areas that sum to 100.
C16_SplitPartition ==
    lastOp.pre = "return" =>
       /\ Partitions(lastOp.ret.pts, lastOp.ret.cutStart, lastOp.ret.cutEnd,
                     lastOp.ret.loops)
       /\ (/\ lastOp.ret.pts = TenSquare
           /\ lastOp.ret.cutStart = XY(5 * U, 0)
           /\ lastOp.ret.cutEnd = XY(5 * U, 10 * U)) =>
             /\ lastOp.ret.loops[1] = << XY(5 * U, 0), XY(10 * U, 0), XY(10 * U, 10 * U),
                                         XY(5 * U, 10 * U) >>
             /\ lastOp.ret.loops[2] = << XY(5 * U, 10 * U), XY(0, 10 * U), XY(0, 0),
                                         XY(5 * U, 0) >>
             /\ TwiceArea(lastOp.ret.loops[1]) + TwiceArea(lastOp.ret.loops[2])
                   = 2 * 100 * U * U

\* the square was split by (5,0)-(5,10) into two loops
C16_Witness ==
    /\ lastOp.pre = "return"
    /\ lastOp.ret.loops # NULL
    /\ lastOp.ret.pts = TenSquare
    /\ lastOp.ret.cutStart = XY(5 * U, 0)
    /\ lastOp.ret.cutEnd = XY(5 * U, 10 * U)

\* the click reached splitPolygon and splitPolygon returned null
SplitFails ==
    LET sl == ui.slice2D
        idx == FindShape(Cur, sl.activeShapeId)
    IN /\ Truthy(sl.activeCut)
       /\ Truthy(sl.activeShapeId)
       /\ idx # 0
       /\ SplitPolygon(Shapes(document)[idx].points, sl.activeCut.start,
                       sl.activeCut.end) = NULL

\* C17: splitPolygon returns null whenever a cut point lies on no edge or
\* both cut points match the same edge; and whenever it returns null the
\* slice commit leaves the shapes of the document, the selection and the
\* slice state unchanged.
C17_SplitNull ==
    /\ \A pts \in SplitPolygons : \A a, b \in CutProbes(pts) :
          (EdgeOf(pts, a) = -1 \/ EdgeOf(pts, b) = -1 \/ EdgeOf(pts, a) = EdgeOf(pts, b))
             => SplitPolygon(pts, a, b) = NULL
    /\ [][(HandleSliceClick /\ SplitFails) =>
            /\ document' = document
            /\ ui'.selectedShapeId = ui.selectedShapeId
            /\ ui'.slice2D = ui.slice2D]_vars

\* a cut was laid across the second triangle, the JSON import made the
\* shape a square, and the click found the cut's end on no edge
C17_Witness ==
    /\ lastOp.op = "sliceClick"
    /\ edits.imports = 1
    /\ edits.slices = 0
    /\ SplitFails

\* ------------------------------------------------------------------------
\* Properties of the boolean menu and of lastModified
\* ------------------------------------------------------------------------

\* a press of the Union or of the Subtract button
BooleanClick == ClickBooleanUnion \/ ClickBooleanSubtract

\* C18: when BooleanOps.union or BooleanOps.subtract returns null, which it
\* does exactly when the clipping result holds no polygon, the handler
\* replaces nothing: the shape list is the same list with the same shapes
\* (both operands included, no shape added), the selection is unchanged, and
\* the boolean menu is hidden.
C18_NullResultKeepsInputs ==
    /\ ClipPoints(<< >>) = NULL
    /\ [][(BooleanClick /\ lastOp'.ret = RetNull) =>
             /\ document' = document
             /\ ui'.selectedShapeId = ui.selectedShapeId
             /\ ui'.boolCandidate = ui.boolCandidate
             /\ boolMenu'.hidden]_vars

\* an empty union left both operands, which are shapes of the list, where
\* they were, and the menu is hidden
C18_Witness ==
    /\ lastOp.op \in {"union", "subtract"}
    /\ lastOp.ret = RetNull
    /\ boolMenu.hidden
    /\ ui.boolCandidate.active.live
    /\ ui.boolCandidate.target.live
    /\ \E i, j \in 1..Len(Shapes(document)) :
          /\ i # j
          /\ Shapes(document)[i] = ui.boolCandidate.active.obj
          /\ Shapes(document)[j] = ui.boolCandidate.target.obj

\* C19: whenever the Union or the Subtract button obtains a result for the
\* current boolCandidate, the resulting list holds no shape with the id of
\* active or of target, holds exactly one new shape, derived from active
\* (union) or from target (subtract) and selected, and is shorter by one,
\* whatever happened between the menu being offered and the click.
C19_BooleanConsumesInputs ==
    [][(BooleanClick /\ lastOp'.ret # RetNull) =>
          LET c == ui.boolCandidate
              before == Shapes(document)
              after == Shapes(document')
              parent == IF lastOp'.op = "union" THEN c.active.obj ELSE c.target.obj
              new == after[Len(after)]
          IN /\ c.active.obj.id \notin ShapeIds(after)
             /\ c.target.obj.id \notin ShapeIds(after)
             /\ Len(after) = Len(before) - 1
             /\ ShapeIds(after) \ ShapeIds(before) = { new.id }
             /\ new.name = parent.name
             /\ new.thickness = parent.thickness
             /\ ui'.selectedShapeId = new.id]_vars

\* what of a shape a cache keyed on (id, lastModified) stands for
Content(shape) ==
    [points |-> shape.points, thickness |-> shape.thickness, name |-> shape.name,
     activeFace |-> shape.activeFace, faceData |-> shape.faceData,
     transform3D |-> shape.transform3D]

\* C20: every operation that changes the points, thickness, name, activeFace,
\* faceData or transform3D of a shape leaves that shape with a lastModified
\* newer than before.
C20_LastModifiedBumped ==
    [][\A i \in 1..Len(Shapes(document)), j \in 1..Len(Shapes(document')) :
          LET old == Shapes(document)[i]
              new == Shapes(document')[j]
          IN (old.id = new.id /\ Content(old) # Content(new)) =>
                new.lastModified > old.lastModified]_vars

\* ------------------------------------------------------------------------
\* Properties of the faces and of the joinery
\* ------------------------------------------------------------------------

\* C27: getFaceOrigin returns origin = points[0] and xMult = 1 for FRONT and
\* for a missing or unknown face name; for BACK it returns xMult = -1 and
\* origin = (2*cx - points[0].x, points[0].y), cx being the mean x of the
\* vertices, so that mirroring the origin across cx gives points[0]; for
\* EDGE_i it returns xMult = 1 and origin = (cx - lengthToNext_i*scale/2,
\* cy - thickness*scale/2), the same for every edge of that length.
C27_FaceOrigin ==
    lastOp.pre = "return" =>
       LET shape == lastOp.ret.shape
           f == shape.activeFace
           r == lastOp.ret.face
           p0 == shape.points[1]
           c == CalculateCentroid(shape.points)
           i == EdgeIndex(f)
       IN /\ f \in {"", "FRONT", "TOP"} => r.origin = p0 /\ r.xMult = 1
          /\ f = "BACK" =>
                /\ r.xMult = -1
                /\ r.origin = XY(2 * c.x - p0.x, p0.y)
                /\ XY(2 * c.x - r.origin.x, r.origin.y) = XY(p0.x, p0.y)
          /\ (i >= 0 /\ i < Len(shape.points)) =>
                /\ r.xMult = 1
                /\ r.origin.x = c.x - RoundDiv(shape.points[i + 1].lengthToNext
                                                  * SCALE_PIXELS_PER_INCH * U, 2 * InchScale)
                /\ r.origin.y = c.y - RoundDiv(shape.thickness * SCALE_PIXELS_PER_INCH * U,
                                               2 * InchScale)
                /\ \A j \in 1..Len(shape.points) :
                      shape.points[j].lengthToNext = shape.points[i + 1].lengthToNext =>
                         GetFaceOrigin(shape, EdgeNames[j]) = r

\* getFaceOrigin returned for the BACK face of a polygon whose first point
\* is not on the mirror axis
C27_Witness ==
    /\ lastOp.pre = "return"
    /\ lastOp.ret.shape.activeFace = "BACK"
    /\ lastOp.ret.face.origin.x # lastOp.ret.shape.points[1].x

\* C28: after a joinery drag stored the local (x, y) of an item for the world
\* top-left (X, Y), hit-testing and rendering compute from the stored item
\* the same world top-left, and it is (X, Y) to the resolution of the
\* coordinates, on FRONT, BACK and every EDGE_i.
C28_JoineryRoundTrip ==
    (lastOp.pre = "return" /\ lastOp.ret.stored # NULL) =>
       /\ lastOp.ret.hit = lastOp.ret.drawn
       /\ Abs(lastOp.ret.hit.x - lastOp.ret.corner.x) <= 1
       /\ Abs(lastOp.ret.hit.y - lastOp.ret.corner.y) <= 1

\* a tenon was dragged on the BACK face and on an edge face
C28_Witness ==
    /\ lastOp.pre = "return"
    /\ lastOp.ret.stored # NULL
    /\ lastOp.ret.shape.activeFace \in {"BACK", "EDGE_1"}
    /\ lastOp.ret.stored.x # 0
    /\ lastOp.ret.hit = lastOp.ret.corner

\* the list of the active face of a shape
ActiveFaceOf(shape) ==
    IF shape.activeFace \in DOMAIN shape.faceData
    THEN shape.faceData[shape.activeFace] ELSE EmptyFace

\* shape new is shape old except for the tenons and cutouts of old's active
\* face, and the other shapes of the list are the same
OnlyActiveFaceChanged(idx) ==
    LET old == Shapes(document)[idx]
        new == Shapes(document')[idx]
    IN /\ Len(Shapes(document')) = Len(Shapes(document))
       /\ \A k \in 1..Len(Shapes(document)) : k # idx => Shapes(document')[k] = Shapes(document)[k]
       /\ new.id = old.id
       /\ new.points = old.points
       /\ new.activeFace = old.activeFace
       /\ new.thickness = old.thickness
       /\ \A g \in DOMAIN old.faceData \ {old.activeFace} :
             new.faceData[g] = old.faceData[g]

\* C29: addTenon appends exactly one tenon to the active face of the selected
\* shape: (0,0), 2 by 1, inset 0 when the face has none; on FRONT with
\* tenons, one with the last tenon's w, h and inset whose centre is the point
\* of the outline nearest to the reflection of the last tenon's centre
\* through the vertex mean; on another face with tenons, (last.x + 2, 0),
\* 2 by 1.  Its depth is the thickness; cutouts, other faces, points and
\* other shapes are unchanged.
C29_AddTenonPlacement ==
    [][(ClickAddTenon /\ SelectedShapeIndex(Cur) # 0) =>
          LET idx == SelectedShapeIndex(Cur)
              old == Shapes(document)[idx]
              new == Shapes(document')[idx]
              tenons == ActiveFaceOf(old).tenons
              added == ActiveFaceOf(new).tenons
              t == added[Len(added)]
              last == tenons[Len(tenons)]
              pts == old.points
              p0 == pts[1]
              c == CalculateCentroid(pts)
              target == XY(2 * c.x - (p0.x + InchesToPixels(last.x + last.w \div 2)),
                           2 * c.y - (p0.y + InchesToPixels(last.y + last.h \div 2)))
              centre == XY(p0.x + InchesToPixels(t.x + t.w \div 2),
                           p0.y + InchesToPixels(t.y + t.h \div 2))
              edge(i) == << pts[i], pts[(i % Len(pts)) + 1] >>
          IN /\ OnlyActiveFaceChanged(idx)
             /\ ActiveFaceOf(new).cutouts = ActiveFaceOf(old).cutouts
             /\ Len(added) = Len(tenons) + 1
             /\ SubSeq(added, 1, Len(tenons)) = tenons
             /\ t.depth = old.thickness
             /\ Len(tenons) = 0 =>
                   t = TenonCreate(0, 0, 2 * InchScale, InchScale, old.thickness, 0)
             /\ (Len(tenons) > 0 /\ old.activeFace # "FRONT") =>
                   t = TenonCreate(last.x + 2 * InchScale, 0, 2 * InchScale, InchScale,
                                   old.thickness, 0)
             /\ (Len(tenons) > 0 /\ old.activeFace = "FRONT") =>
                   /\ t.w = last.w /\ t.h = last.h /\ t.inset = last.inset
                   /\ \E i \in 1..Len(pts) :
                         Dist(centre, ClosestPointOnSegment(centre, edge(i)[1], edge(i)[2])) <= 3
                   /\ \A i \in 1..Len(pts) :
                         Dist(target, centre)
                            <= Dist(target, ClosestPointOnSegment(target, edge(i)[1],
                                                                  edge(i)[2])) + 3]_vars

\* a second tenon was mirrored on a FRONT face, away from the first
C29_Witness ==
    /\ lastOp.op = "addTenon"
    /\ \E k \in 1..Len(Shapes(document)) :
          LET shape == Shapes(document)[k]
          IN /\ shape.id = ui.selectedShapeId
             /\ shape.activeFace = "FRONT"
             /\ Len(shape.faceData.FRONT.tenons) = 2
             /\ shape.faceData.FRONT.tenons[2].x # 0
             /\ shape.faceData.FRONT.tenons[2].y # 0

\* C30: addCutout appends exactly one cutout (x 2, y 0, w 2, h 1, depth the
\* thickness) to the active face of the selected shape, however many cutouts
\* and tenons the face has; the tenons, the other faces and the other shapes
\* are unchanged; with no shape selected nothing changes.
C30_AddCutout ==
    [][ClickAddCutout =>
          LET idx == SelectedShapeIndex(Cur)
              old == Shapes(document)[idx]
              new == Shapes(document')[idx]
          IN IF idx = 0 THEN document' = document /\ ui' = ui
             ELSE /\ OnlyActiveFaceChanged(idx)
                  /\ ActiveFaceOf(new).tenons = ActiveFaceOf(old).tenons
                  /\ ActiveFaceOf(new).cutouts =
                        Append(ActiveFaceOf(old).cutouts,
                               CutoutCreate(2 * InchScale, 0, 2 * InchScale, InchScale,
                                            old.thickness))]_vars

\* a second cutout was added to a face that has a tenon
C30_Witness ==
    /\ lastOp.op = "addCutout"
    /\ \E k \in 1..Len(Shapes(document)) :
          LET face == ActiveFaceOf(Shapes(document)[k])
          IN /\ Shapes(document)[k].id = ui.selectedShapeId
             /\ Len(face.cutouts) = 2
             /\ Len(face.tenons) = 1
             /\ face.cutouts[2].x = 2 * InchScale

\* C21: every operation that changes the document installs a new shape
\* object and leaves the object installed before as it was: across every
\* step that does not itself assign ui.boolCandidate (the release of a
\* drag and the timeout of the menu do), the operands the boolean menu
\* keeps in ui.boolCandidate still show every field, lengthToNext
\* included, with the value it had.
C21_CopyOnWrite ==
    [][(/\ Truthy(ui.boolCandidate) /\ Truthy(ui'.boolCandidate)
        /\ lastOp'.op \notin {"release", "menuTimeout"}) =>
          /\ ui'.boolCandidate.active.obj = ui.boolCandidate.active.obj
          /\ ui'.boolCandidate.target.obj = ui.boolCandidate.target.obj]_vars

\* ------------------------------------------------------------------------
\* Properties of panning and of the click that follows it
\* ------------------------------------------------------------------------

\* C22: the click that follows the mouse-up of a pan that ended beyond the
\* click tolerance (no time has passed since the mouse-up) reaches neither
\* SelectionOp.handleSelect nor DrawingOp.handleDrawClick: it is ignored,
\* whatever timeouts of earlier pans are pending and whether or not Space
\* was released before the mouse-up.
C22_PanSuppressesClick ==
    [][(input.panEnded /\ lastOp'.op = "click") => lastOp'.ret = RetIgnored]_vars

\* C23: the suppression is one-shot and never sticks. A click that finds
\* ignoreNextClick set is dropped, changes nothing else and clears the flag;
\* a click that finds it clear is handled (DrawingOp.handleDrawClick in
\* DRAW mode, SelectionOp.handleSelect otherwise); and whenever the flag is
\* set it eventually becomes false, click or no click, once the timeouts
\* run.
C23_OneShot ==
    /\ [][lastOp'.op = "click" =>
            IF input.ignoreNextClick
            THEN /\ lastOp'.ret = RetIgnored
                 /\ ~input'.ignoreNextClick
                 /\ UNCHANGED <<ui, document, history>>
            ELSE /\ lastOp'.ret = RetCalled(IF ui.mode = "DRAW" THEN "handleDrawClick"
                                            ELSE "handleSelect")
                 /\ ~input'.ignoreNextClick]_vars
    /\ (input.ignoreNextClick ~> ~input.ignoreNextClick)

\* one pan beyond the tolerance, its click dropped, and the second click
\* has started a shape while the timeout is still pending
C23_Witness ==
    /\ edits.pans = 1 /\ clicks = 2 /\ switches = 0
    /\ lastOp.op = "click" /\ lastOp.ret = RetCalled("handleDrawClick")
    /\ ui.drawState = "START_SHAPE"
    /\ Len(input.timers) = 1
    /\ ~input.ignoreNextClick

\* ------------------------------------------------------------------------
\* Properties of shape drags
\* ------------------------------------------------------------------------

\* the points of shape are those of start, moved by (to - from), with the
\* lengthToNext they had
Translated(points, start, from, to) ==
    /\ Len(points) = Len(start)
    /\ \A i \in 1..Len(start) :
          /\ points[i].x = start[i].x + (to.x - from.x)
          /\ points[i].y = start[i].y + (to.y - from.y)
          /\ points[i].lengthToNext = start[i].lengthToNext

\* the shape of the document with the id, as a one-element set
ShapeWithId(id) == { Shapes(document)[i] : i \in { j \in 1..Len(Shapes(document)) :
                                                     Shapes(document)[j].id = id } }

\* C24: a clone drag makes exactly one copy per gesture. The first update
\* of a gesture in clone mode dispatches a persisted SHAPE_ADD: the list
\* grows by one shape with a new id, a name ending in "(Copy)" and the
\* points of the original shifted by (cursor - lastPos); that copy becomes
\* ui.dragging.item and isCloneMode becomes false. Every later update of
\* the gesture adds no shape and pushes no snapshot, and the original keeps
\* the points it had when the button went down.
C24_CloneOnce ==
    /\ [][lastOp'.op = "dragUpdate" /\ IsRef(ui.dragging.item) =>
            LET old == Shapes(document)
                new == Shapes(document')
                orig == ui.dragging.item.obj
                copy == new[Len(new)]
            IN IF ui.dragging.isCloneMode
               THEN /\ lastOp'.ret.action = "SHAPE_ADD"
                    /\ history' = PushHistory(history, Snapshot(Cur))
                    /\ Len(new) = Len(old) + 1
                    /\ SubSeq(new, 1, Len(old)) = old
                    /\ copy.id \notin ShapeIds(old)
                    /\ copy.name = CopyName(orig.name)
                    /\ Translated(copy.points, orig.points, ui.dragging.lastPos,
                                  lastOp'.ret.cursor)
                    /\ ui'.dragging.item.obj = copy
                    /\ ui'.dragging.isCloneMode = FALSE
               ELSE /\ lastOp'.ret.action = "SHAPE_DRAG_MOVE"
                    /\ Len(new) = Len(old)
                    /\ history' = history
                    /\ \A i \in 1..Len(old) : old[i].id # orig.id => new[i] = old[i]]_vars
    /\ [](lastOp.op = "dragUpdate" /\ lastOp.ret.clone =>
            \A s \in ShapeWithId(lastOp.ret.id) : s.points = lastOp.ret.start)

\* the second update of a clone drag: the copy exists and is moved
C24_Witness ==
    /\ lastOp.op = "dragUpdate"
    /\ lastOp.ret.clone
    /\ lastOp.ret.action = "SHAPE_DRAG_MOVE"
    /\ Len(Shapes(document)) = 3
    /\ ui.dragging.item.obj.id # lastOp.ret.id
    /\ lastOp.ret.cursor # lastOp.ret.at

\* C25: an update of a shape drag that is not in clone mode dispatches
\* SHAPE_DRAG_MOVE and never SHAPE_ADD: every point of the dragged shape is
\* translated by (cursor - lastPos) and keeps its lengthToNext, the number
\* of points and of shapes stays, the other shapes are as they were, and
\* lastPos becomes the cursor; over the whole gesture the shape has moved by
\* (last cursor - position of the mouse-down).
C25_DragTranslates ==
    /\ [][(/\ lastOp'.op = "dragUpdate" /\ IsRef(ui.dragging.item)
           /\ ~ui.dragging.isCloneMode) =>
            LET old == Shapes(document)
                new == Shapes(document')
                dragged == ui.dragging.item.obj
            IN /\ lastOp'.ret.action = "SHAPE_DRAG_MOVE"
               /\ Len(new) = Len(old)
               /\ \A i \in 1..Len(old) :
                     IF old[i].id = dragged.id
                     THEN /\ Translated(new[i].points, dragged.points,
                                        ui.dragging.lastPos, lastOp'.ret.cursor)
                          /\ new[i].id = old[i].id
                          /\ ui'.dragging.item.obj = new[i]
                     ELSE new[i] = old[i]
               /\ ui'.dragging.lastPos = lastOp'.ret.cursor]_vars
    /\ [](lastOp.op = "dragUpdate" /\ ~lastOp.ret.clone /\ lastOp.ret.id # NULL =>
            \A s \in ShapeWithId(lastOp.ret.id) :
               Translated(s.points, lastOp.ret.start, lastOp.ret.at, lastOp.ret.cursor))

\* two updates of one plain drag: the shape is away from where it started
C25_Witness ==
    /\ lastOp.op = "dragUpdate"
    /\ ~lastOp.ret.clone
    /\ lastOp.ret.id # NULL
    /\ edits.moves = 2 /\ edits.presses = 1
    /\ lastOp.ret.cursor # lastOp.ret.at
    /\ Len(Shapes(document)) = 2
    /\ \E s \in ShapeWithId(lastOp.ret.id) : s.points # lastOp.ret.start

\* ------------------------------------------------------------------------
\* Properties of the thickness handle
\* ------------------------------------------------------------------------

\* C26: an update of a thickness drag sets the thickness of the dragged
\* shape to max(0.125, initialVal + round(dx / 10) / 16) inch, dx being the
\* cursor's screen x minus the x where the drag started, so the thickness
\* never falls below 0.125 inch. round(dx / 10) is the integer steps with
\* steps - 1/2 <= dx / 10 < steps + 1/2; values are compared in units of
\* 1/(16 * InchScale) inch, within the half unit of 1/InchScale inch to
\* which the model keeps a length.
C26_ThicknessDrag ==
    /\ [][lastOp'.op = "thicknessMove" =>
            LET dragging == ui.dragging
                dx == lastOp'.ret.cursor.x - dragging.startPos.x
                steps == CHOOSE k \in -30..30 :
                            /\ 20 * U * k <= 2 * dx + 10 * U
                            /\ 2 * dx + 10 * U < 20 * U * (k + 1)
                exact == Max(2 * InchScale, 16 * dragging.initialVal + steps * InchScale)
                new == Shapes(document')
                old == Shapes(document)
            IN /\ Len(new) = Len(old)
               /\ \A i \in 1..Len(old) :
                     IF old[i].id = dragging.item.obj.id
                     THEN /\ Abs(16 * new[i].thickness - exact) <= 8
                          /\ ui'.dragging.item.obj = new[i]
                     ELSE new[i] = old[i]
               /\ ui'.dragging.initialVal = dragging.initialVal
               /\ ui'.dragging.startPos = dragging.startPos]_vars
    /\ [](\A i \in 1..Len(Shapes(document)) :
             16 * Shapes(document)[i].thickness + 8 >= 2 * InchScale)

\* the second update of a drag of a board of the default thickness went far
\* to the left, and the thickness is at its minimum
C26_Witness ==
    /\ lastOp.op = "thicknessMove"
    /\ edits.moves = 2 /\ edits.presses = 1
    /\ lastOp.ret.cursor.x < ui.dragging.startPos.x - 100 * U
    /\ ui.dragging.item.obj.thickness = RoundDiv(InchScale, 8)
    /\ ui.dragging.initialVal = DEFAULT_THICKNESS * InchScale

\* ------------------------------------------------------------------------
\* Properties of removeJoinery, of measurements and of activeFace
\* ------------------------------------------------------------------------

\* the list without the element at position index (from 0)
Without(list, index) ==
    [k \in 1..(Len(list) - 1) |-> IF k <= index THEN list[k] ELSE list[k + 1]]

\* C31: removeJoinery(type, index) removes exactly the item at position
\* index of the active face's cutouts when type is 'cutout', of its tenons
\* otherwise, and keeps the order of the others; an index at or beyond the
\* length removes nothing; the other list, the other faces, the points and
\* the other shapes stay, and with no shape selected nothing changes.
C31_RemoveJoinery ==
    [][lastOp'.op = "removeJoinery" =>
         LET k == SelectedShapeIndex(Cur)
             old == Shapes(document)
             new == Shapes(document')
             type == lastOp'.ret.type
             index == lastOp'.ret.index
         IN IF k = 0 THEN UNCHANGED <<ui, document, history>>
            ELSE LET face == old[k].faceData[old[k].activeFace]
                     face2 == new[k].faceData[old[k].activeFace]
                     list == IF type = "cutout" THEN face.cutouts ELSE face.tenons
                     list2 == IF type = "cutout" THEN face2.cutouts ELSE face2.tenons
                 IN /\ Len(new) = Len(old)
                    /\ \A i \in 1..Len(old) : i # k => new[i] = old[i]
                    /\ list2 = IF index < Len(list) THEN Without(list, index) ELSE list
                    /\ IF type = "cutout" THEN face2.tenons = face.tenons
                       ELSE face2.cutouts = face.cutouts
                    /\ \A f \in DOMAIN old[k].faceData \ {old[k].activeFace} :
                          new[k].faceData[f] = old[k].faceData[f]
                    /\ DOMAIN new[k].faceData = DOMAIN old[k].faceData
                    /\ new[k].points = old[k].points
                    /\ new[k].id = old[k].id
                    /\ new[k].activeFace = old[k].activeFace
                    /\ UNCHANGED <<ui, history>>]_vars

\* the first of two tenons was removed, next to a cutout that stayed
C31_Witness ==
    /\ lastOp.op = "removeJoinery"
    /\ lastOp.ret.type = "tenon" /\ lastOp.ret.index = 0
    /\ SelectedShapeIndex(Cur) # 0
    /\ LET shape == Shapes(document)[SelectedShapeIndex(Cur)]
           face == shape.faceData[shape.activeFace]
       IN /\ Len(face.tenons) = 1
          /\ Len(face.cutouts) = 1
          /\ face.tenons[1].x # 0

\* ------------------------------------------------------------------------
\* Properties of measurements, of activeFace and of the history
\* ------------------------------------------------------------------------

\* C32: for every length v = k/16 inch with 0 <= v <= 100,
\* parseMeasurement(formatInches(v)) is a number within 1/16 inch of v.
C32_RoundTrip ==
    (lastOp.op = "parseMeasurement" /\ lastOp.pre = "return") =>
        LET v == lastOp.ret.val
            p == lastOp.ret.parsed
        IN /\ p # NULL
           /\ IsFinite(p)
           /\ FractionDen * Abs(p.num * SixtyFourths - v * p.den) <= SixtyFourths * p.den

\* 2 3/16 inch has been written as a mixed fraction and read back
C32_Witness ==
    /\ lastOp.op = "parseMeasurement"
    /\ lastOp.pre = "return"
    /\ lastOp.ret.val = 2 * SixtyFourths + 3 * (SixtyFourths \div FractionDen)
    /\ lastOp.ret.text = << "2", " ", "3", "/", "1", "6", "\"" >>
    /\ lastOp.ret.parsed = [tag |-> "number", num |-> 35, den |-> 16]

\* C33: no invalid numeric entry reaches the data model: parseMeasurement
\* returns null or a finite number (never NaN or Infinity); when it returns
\* null handleInputApply leaves drawState and activeDrawing unchanged; and
\* a joinery dimension field edited with unparsable text leaves the stored
\* value (the document) unchanged.
C33_NoInvalidNumber ==
    [][/\ (lastOp'.op = "inputApply" /\ edits'.renames = edits.renames + 1) =>
             /\ lastOp'.ret.value = NULL \/ IsFinite(lastOp'.ret.value)
             /\ lastOp'.ret.value = NULL =>
                   /\ ui'.drawState = ui.drawState
                   /\ ui'.activeDrawing = ui.activeDrawing
       /\ (lastOp'.op = "fieldChange" /\ edits'.renames = edits.renames + 1
             /\ lastOp'.ret.value = NAN) => document' = document]_vars

\* the faces a shape has: FRONT, BACK and EDGE_i for 0 <= i < points.length
ValidFaces(shape) == {"FRONT", "BACK"} \cup { EdgeNames[i] : i \in 1..Len(shape.points) }

\* the active face of the selected shape after cycleFace(delta)
FaceAfter(B, delta) ==
    LET after == CycleFace(B, delta).st
    IN Shapes(after.document)[SelectedShapeIndex(after)].activeFace

\* C34: after any sequence of operations (draw completion, face cycling,
\* boolean union and subtract, clone, JSON import) every shape of the
\* document has activeFace FRONT, BACK or EDGE_i with 0 <= i < points.length;
\* cycleFace(+1) and cycleFace(-1) step cyclically through FRONT, BACK,
\* EDGE_0 .. EDGE_{n-1}, and +1 followed by -1 returns to the starting face.
C34_ActiveFaceValid ==
    /\ \A k \in 1..Len(Shapes(document)) :
          Shapes(document)[k].activeFace \in ValidFaces(Shapes(document)[k])
    /\ SelectedShapeIndex(Cur) # 0 =>
          LET shape == Shapes(document)[SelectedShapeIndex(Cur)]
              faces == FaceCycle(shape)
              n == Len(faces)
          IN /\ \A i \in 1..n : \A d \in FaceDeltas :
                  shape.activeFace = faces[i] =>
                      FaceAfter(CurAll, d) = faces[((i - 1 + d + n) % n) + 1]
             /\ FaceAfter(CycleFace(CurAll, 1), -1) = shape.activeFace

\* C35: in every reachable state with drawState = DRAWING_LINE in which
\* handleDrawClick can run (mode DRAW), snapTarget or tempLine is non-null,
\* and no click fails on a missing tempLine.
C35_PendingEndpoint ==
    /\ (ui.mode = "DRAW" /\ ui.drawState = "DRAWING_LINE") =>
          Truthy(ui.activeDrawing.snapTarget) \/ Truthy(ui.activeDrawing.tempLine)
    /\ lastOp.op = "click" => lastOp.ret # RetThrow

\* ------------------------------------------------------------------------
\* Properties of the history
\* ------------------------------------------------------------------------

\* a point, or null, without its cached length
WithoutLength(p) ==
    IF Truthy(p) /\ "lengthToNext" \in DOMAIN p THEN [p EXCEPT !.lengthToNext = NoLen] ELSE p

\* a segment, or null, without the cached lengths of its ends
LineWithoutLengths(l) ==
    IF Truthy(l) /\ "start" \in DOMAIN l
    THEN [k \in DOMAIN l |-> IF k \in {"start", "end"} THEN WithoutLength(l[k]) ELSE l[k]]
    ELSE l

\* an activeDrawing without the lengthToNext that handleDrawClick writes into
\* the point objects before it dispatches
WithoutLengths(ad) ==
    [k \in DOMAIN ad |->
        IF k = "points" THEN [i \in 1..Len(ad.points) |-> WithoutLength(ad.points[i])]
        ELSE IF k = "snapTarget" THEN WithoutLength(ad[k])
        ELSE IF k \in {"tempLine", "alignmentGuide"} THEN LineWithoutLengths(ad[k])
        ELSE ad[k]]

\* Store.undo called n times
RECURSIVE UndoTimes(_, _)
UndoTimes(S, n) == IF n = 0 THEN S ELSE UndoTimes(Undo(S), n - 1)

Pushes(ret) ==
    IF ret = RetThrow THEN 0
    ELSE IF ui.drawState = "START_SHAPE" /\ ~Truthy(ui.activeDrawing.highlightedDirection)
    THEN 2
    ELSE IF ui.drawState \in {"IDLE", "START_SHAPE", "DRAWING_LINE"} THEN 1
    ELSE 0

\* C37: the history never holds more than MAX_HISTORY = 10 snapshots, the
\* oldest being dropped first when one more is pushed; a snapshot is pushed
\* only by a dispatch with shouldPersist = true (the draw clicks; not the
\* preview, the cancel or the undo) and holds the document, drawState and
\* activeDrawing of before the merge; Store.undo with an empty history
\* changes neither the document nor the UI state.
C37_HistoryBounded ==
    /\ [](Len(history) <= MAX_HISTORY)
    /\ [][/\ clicks' = clicks + 1 =>
               LET n == Pushes(lastOp'.ret)
                   kept == Len(history') - n
                   first == history'[kept + 1]
               IN /\ Len(history') = Min(MAX_HISTORY, Len(history) + n)
                  /\ \A i \in 1..kept : history'[i] = history[Len(history) - kept + i]
                  /\ n >= 1 =>
                        /\ first.document = [projects |-> document.projects,
                                             currentProjectId |-> document.currentProjectId]
                        /\ first.ui.drawState = ui.drawState
                        /\ WithoutLengths(first.ui.activeDrawing)
                              = WithoutLengths(ui.activeDrawing)
                        /\ ui.drawState # "DRAWING_LINE" =>
                              first.ui.activeDrawing = ui.activeDrawing
                  /\ n = 2 => history'[Len(history')].ui.drawState = "IDLE"
          /\ undos' = undos + 1 =>
               /\ history' = SubSeq(history, 1, Len(history) - 1)
               /\ history = << >> => (ui' = ui /\ document' = document)
          /\ (clicks' = clicks /\ undos' = undos) => history' = history]_vars

\* six clicks have pushed eleven snapshots: the history is full and the
\* oldest snapshot, that of the empty IDLE state, is gone
C37_Witness ==
    /\ Len(history) = MAX_HISTORY
    /\ lastOp.op = "click"
    /\ clicks = 6
    /\ undos = 0
    /\ history[MAX_HISTORY].ui.drawState = "IDLE"
    /\ history[1].ui.drawState = "START_SHAPE"
    /\ history[1].ui.activeDrawing.points # << >>

\* C38: in every reachable state with ui.mode # DRAW, ui.drawState = IDLE
\* and activeDrawing.points is empty, after any sequence of tool switches,
\* draw clicks, shape completions, cancels and undos.
C38_DrawStateConfined ==
    ui.mode # "DRAW" =>
        /\ ui.drawState = "IDLE"
        /\ ui.activeDrawing.points = << >>

\* C39: outside an operation, ui.selectedShapeId is null or the id of a
\* shape of the document
C39_SelectionNeverDangles ==
    \/ ~Truthy(ui.selectedShapeId)
    \/ \E k \in 1..Len(Shapes(document)) :
          Shapes(document)[k].id = ui.selectedShapeId

\* ------------------------------------------------------------------------
\* Properties of the joinery drag
\* ------------------------------------------------------------------------

\* the item of the document the gesture of dragging d moves
DraggedItem(doc, d) ==
    LET shape == Shapes(doc)[CHOOSE k \in 1..Len(Shapes(doc)) :
                                Shapes(doc)[k].id = d.shape.id]
        activeFace == IF shape.activeFace = "" THEN "FRONT" ELSE shape.activeFace
        face == shape.faceData[activeFace]
    IN IF d.listType = "tenon" THEN face.tenons[d.item.idx] ELSE face.cutouts[d.item.idx]

\* the numbers of tenons and cutouts on each face of each shape
JoineryCounts(doc) ==
    [k \in 1..Len(Shapes(doc)) |->
        [f \in DOMAIN Shapes(doc)[k].faceData |->
            << Len(Shapes(doc)[k].faceData[f].tenons),
               Len(Shapes(doc)[k].faceData[f].cutouts) >>]]

\* C40: every update of a joinery drag, the first and every later one,
\* dispatches JOINERY_DRAG_MOVE and leaves the dragged item of the document
\* at the local position of the pointer minus the grab offset, after
\* snapping; the numbers of tenons and cutouts do not change
C40_DragFollowsCursor ==
    [][(/\ lastOp'.op = "joineryMove"
        /\ edits'.moves = edits.moves + 1
        /\ ui.dragging.type = JOINERY)
       => /\ lastOp'.ret.action = "JOINERY_DRAG_MOVE"
          /\ DraggedItem(document', ui.dragging).x
                = DraggedTo(ui.dragging, lastOp'.ret.at).x
          /\ DraggedItem(document', ui.dragging).y
                = DraggedTo(ui.dragging, lastOp'.ret.at).y
          /\ JoineryCounts(document') = JoineryCounts(document)]_vars

====
